---- MODULE Spec2Model ----
(***************************************************************************)
(* Fit scoring of the recruiting backend                                   *)
(* (apps/backend/src/services/fit_score_service.py, FitScoreService).      *)
(*                                                                         *)
(* Conventions of the model                                                *)
(*   - A Python str is a sequence of one-character strings, so that        *)
(*     lower(), strip(), `in` and float() are computed, not assumed.       *)
(*   - A nullable value is None (<<>>) or Some(v) (<<v>>).                 *)
(*   - A JSON dict is a function from its keys to nullable values; a key   *)
(*     that is missing is missing from its DOMAIN.                         *)
(*   - A float is an exact rational <<n, d>> in lowest terms with d > 0.   *)
(*     The five weights add up to 1.0 exactly in IEEE double arithmetic    *)
(*     as well, in the order the code adds them.                           *)
(*   - Job.title and the candidate's name, current_title and               *)
(*     current_company are only echoed into the breakdown; no score reads  *)
(*     them and the records of the model leave them out.                   *)
(***************************************************************************)
EXTENDS Integers, Sequences, FiniteSets, TLC

VARIABLES jobs, candidates, apps, pending, response, clock, memo, calls,
          cands, activity_logs, posts, interviews, reply

vars == <<jobs, candidates, apps, pending, response, clock, memo, calls,
          cands, activity_logs, posts, interviews, reply>>

\* the state of the scoring service / of the API routes and the interview
\* service (the tables they keep and the last answer they gave)
scoring == <<jobs, candidates, apps, pending, response, clock, memo, calls>>
routes == <<cands, activity_logs, posts, interviews, reply>>

-----------------------------------------------------------------------------
(* Bounds of the model *)

\* utcnow() returns a value in 0..MaxClock
MaxClock == 1
\* calculate_fit_score calls the worker processes serve
MaxCalls == 2
\* get_top_candidates is called with limit in 0..MaxLimit
MaxLimit == 2
\* stage_changed activities the activity log holds
MaxActivities == 1
\* rows of the jobs table of the routes
MaxJobs == 2
\* candidates of one job in one stage
MaxCount == 3
\* interviews start at a minute in 0..MaxTime
MaxTime == 2
\* interviews last 1..MaxDuration minutes
MaxDuration == 2
\* rows of the interviews table
MaxInterviews == 2

-----------------------------------------------------------------------------
(* Nullable values and Python truthiness *)

None == <<>>
Some(v) == <<v>>
IsNone(x) == x = None
Val(x) == x[1]

\* `not x` for a nullable number: None and 0 are falsy
FalsyNum(x) == IsNone(x) \/ Val(x) = 0
\* `not x` for a nullable str or list: None and the empty sequence are falsy
FalsySeq(x) == IsNone(x) \/ Len(Val(x)) = 0
\* `not x` for a nullable dict: None and {} are falsy
FalsyDict(x) == IsNone(x) \/ DOMAIN Val(x) = {}

\* d.get(key, default) of a dict d
DictGet(d, key, default) == IF key \in DOMAIN d THEN d[key] ELSE default

-----------------------------------------------------------------------------
(* Floats as exact rationals *)

\* The element of a one-element set.  An operator that uses a computed value
\* several times binds it as v \in {e}, so that e is computed once.
The(S) == CHOOSE x \in S : TRUE

Abs(n) == IF n < 0 THEN -n ELSE n

RECURSIVE GCD(_, _)
GCD(a, b) == IF b = 0 THEN a ELSE The({GCD(b, r) : r \in {a % b}})

\* the fraction n/d in lowest terms with a positive denominator
Rat(n, d) ==
    The({IF nn = 0 THEN <<0, 1>>
         ELSE The({IF dd < 0 THEN <<(-nn) \div g, (-dd) \div g>>
                   ELSE <<nn \div g, dd \div g>> :
                      g \in {GCD(Abs(nn), Abs(dd))}}) :
            nn \in {n}, dd \in {d}})

RAdd(a, b) == The({Rat(x[1] * y[2] + y[1] * x[2], x[2] * y[2]) : x \in {a}, y \in {b}})
RMul(a, b) == The({Rat(x[1] * y[1], x[2] * y[2]) : x \in {a}, y \in {b}})
RLess(a, b) == \E x \in {a}, y \in {b} : x[1] * y[2] < y[1] * x[2]
RLeq(a, b) == \E x \in {a}, y \in {b} : x[1] * y[2] <= y[1] * x[2]
RMin(a, b) == The({IF RLess(y, x) THEN y ELSE x : x \in {a}, y \in {b}})
RMax(a, b) == The({IF RLess(x, y) THEN y ELSE x : x \in {a}, y \in {b}})

Zero == <<0, 1>>
Half == <<1, 2>>
One == <<1, 1>>

InUnit(x) == RLeq(Zero, x) /\ RLeq(x, One)

SetMin(S) == CHOOSE x \in S : \A y \in S : x <= y
SetMax(S) == CHOOSE x \in S : \A y \in S : y <= x

-----------------------------------------------------------------------------
(* Python str operations *)

UpperChars == <<"A","B","C","D","E","F","G","H","I","J","K","L","M",
                "N","O","P","Q","R","S","T","U","V","W","X","Y","Z">>
LowerChars == <<"a","b","c","d","e","f","g","h","i","j","k","l","m",
                "n","o","p","q","r","s","t","u","v","w","x","y","z">>

LowerMap == [c \in {UpperChars[i] : i \in 1..26} |->
                LowerChars[CHOOSE i \in 1..26 : UpperChars[i] = c]]

LowerChar(c) == IF c \in DOMAIN LowerMap THEN LowerMap[c] ELSE c

\* s.lower()
RECURSIVE Lower(_)
Lower(s) == IF s = <<>> THEN <<>> ELSE <<LowerChar(Head(s))>> \o Lower(Tail(s))

IsSpace(c) == c \in {" ", "\t", "\n", "\r"}

\* s.strip()
Strip(s) ==
    The({IF keep = {} THEN <<>> ELSE SubSeq(s, SetMin(keep), SetMax(keep)) :
            keep \in {{i \in 1..Len(s) : ~IsSpace(s[i])}}})

\* needle in hay
Contains(hay, needle) ==
    \E i \in 0..(Len(hay) - Len(needle)) : \A k \in 1..Len(needle) : hay[i + k] = needle[k]

-----------------------------------------------------------------------------
(* _calculate_skill_match *)

\* the job's skill list: parsed_requirements['required_skills'] when the key is
\* there (whatever its value), else Job.requirements, else []
JobSkills(job) ==
    IF ~FalsyDict(job.parsed_requirements)
       /\ "required_skills" \in DOMAIN Val(job.parsed_requirements)
    THEN Val(job.parsed_requirements)["required_skills"]
    ELSE IF ~FalsySeq(job.requirements) THEN job.requirements
    ELSE Some(<<>>)

\* candidate.skills or []
CandidateSkills(candidate) ==
    IF FalsySeq(candidate.skills) THEN <<>> ELSE Val(candidate.skills)

\* SkillCredit with `matched_skills += 1` for a partial match as well
SkillCreditPartialAsExact(job_skill, candidate_skills) ==
    The({IF hits = {} THEN 0 ELSE 5 :
            hits \in {{i \in 1..Len(candidate_skills) :
                         \E a \in {Lower(job_skill)}, b \in {Lower(candidate_skills[i])} :
                             a = b \/ Contains(b, a) \/ Contains(a, b)}}})

\* What one required skill adds to matched_skills, in fifths: the inner loop
\* stops at the first candidate skill that is equal (1.0) or that contains or
\* is contained in the required skill (0.8).
SkillCredit(job_skill, candidate_skills) ==
    The({IF hits = {} THEN 0 ELSE IF jl = cls[SetMin(hits)] THEN 5 ELSE 4 :
            jl \in {Lower(job_skill)},
            cls \in {[i \in 1..Len(candidate_skills) |-> Lower(candidate_skills[i])]},
            hits \in {{i \in 1..Len(candidate_skills) :
                         \E a \in {Lower(job_skill)}, b \in {Lower(candidate_skills[i])} :
                             a = b \/ Contains(b, a) \/ Contains(a, b)}}})

RECURSIVE MatchedSkills(_, _)
MatchedSkills(job_skills, candidate_skills) ==
    IF job_skills = <<>> THEN 0
    ELSE SkillCredit(Head(job_skills), candidate_skills)
         + MatchedSkills(Tail(job_skills), candidate_skills)

calculate_skill_match(job, candidate) ==
    The({IF FalsySeq(job_skills) \/ candidate_skills = <<>> THEN Zero
         ELSE RMin(Rat(MatchedSkills(Val(job_skills), candidate_skills),
                       5 * Len(Val(job_skills))), One) :
            job_skills \in {JobSkills(job)},
            candidate_skills \in {CandidateSkills(candidate)}})

-----------------------------------------------------------------------------
(* _calculate_experience_match *)

\* RequiredExp reading the key 'experience_years', which no job has
RequiredExpWrongKey(job) ==
    IF ~FalsyDict(job.parsed_requirements)
       /\ "experience_years" \in DOMAIN Val(job.parsed_requirements)
    THEN Val(job.parsed_requirements)["experience_years"]
    ELSE None

RequiredExp(job) ==
    IF ~FalsyDict(job.parsed_requirements)
       /\ "experience_required" \in DOMAIN Val(job.parsed_requirements)
    THEN Val(job.parsed_requirements)["experience_required"]
    ELSE None

\* calculate_experience_match with 0.0 where the code has the neutral 0.5
calculate_experience_match_zero_default(job, candidate) ==
    LET required_exp == RequiredExp(job)
        candidate_exp == candidate.experience_years
    IN  IF FalsyNum(required_exp) \/ FalsyNum(candidate_exp) THEN Zero
        ELSE IF Val(candidate_exp) >= Val(required_exp) THEN One
        ELSE Rat(Val(candidate_exp), Val(required_exp))

calculate_experience_match(job, candidate) ==
    LET required_exp == RequiredExp(job)
        candidate_exp == candidate.experience_years
    IN  IF FalsyNum(required_exp) \/ FalsyNum(candidate_exp) THEN Half
        ELSE IF Val(candidate_exp) >= Val(required_exp) THEN One
        ELSE Rat(Val(candidate_exp), Val(required_exp))

-----------------------------------------------------------------------------
(* _calculate_education_match *)

\* the dict education_levels, in its insertion order
education_levels ==
    << <<  <<"h","i","g","h"," ","s","c","h","o","o","l">>, 1 >>,
       <<  <<"a","s","s","o","c","i","a","t","e">>, 2 >>,
       <<  <<"b","a","c","h","e","l","o","r">>, 3 >>,
       <<  <<"m","a","s","t","e","r">>, 4 >>,
       <<  <<"p","h","d">>, 5 >>,
       <<  <<"m","b","a">>, 4 >> >>

\* The loop over education_levels assigns on every entry the text contains and
\* never breaks, so the entry that is last in the dict's order decides.
EducationLevel(text) ==
    The({IF hits = {} THEN 0 ELSE education_levels[SetMax(hits)][2] :
            hits \in {{i \in 1..Len(education_levels) :
                         \E low \in {Lower(text)} : Contains(low, education_levels[i][1])}}})

RequiredEdu(job) ==
    IF ~FalsyDict(job.parsed_requirements)
       /\ "education_required" \in DOMAIN Val(job.parsed_requirements)
    THEN Val(job.parsed_requirements)["education_required"]
    ELSE None

\* resume_parsed['education'][0] when resume_parsed has a non-empty list there
CandidateEdu(candidate) ==
    IF ~FalsyDict(candidate.resume_parsed)
       /\ "education" \in DOMAIN Val(candidate.resume_parsed)
       /\ ~FalsySeq(Val(candidate.resume_parsed)["education"])
    THEN Some(Val(Val(candidate.resume_parsed)["education"])[1])
    ELSE None

\* calculate_education_match without the `candidate_level >= required_level`
\* branch of line 219
calculate_education_match_uncapped(job, candidate) ==
    The({IF FalsySeq(required_edu) \/ FalsySeq(candidate_edu) THEN Half
         ELSE The({IF required_level > 0 THEN Rat(candidate_level, required_level)
                   ELSE Zero :
                      required_level \in {EducationLevel(Val(required_edu))},
                      candidate_level \in {EducationLevel(Val(candidate_edu))}}) :
            required_edu \in {RequiredEdu(job)},
            candidate_edu \in {CandidateEdu(candidate)}})

calculate_education_match(job, candidate) ==
    The({IF FalsySeq(required_edu) \/ FalsySeq(candidate_edu) THEN Half
         ELSE The({IF candidate_level >= required_level THEN One
                   ELSE IF required_level > 0 THEN Rat(candidate_level, required_level)
                   ELSE Zero :
                      required_level \in {EducationLevel(Val(required_edu))},
                      candidate_level \in {EducationLevel(Val(candidate_edu))}}) :
            required_edu \in {RequiredEdu(job)},
            candidate_edu \in {CandidateEdu(candidate)}})

-----------------------------------------------------------------------------
(* _calculate_location_match *)

sRemoteLower == <<"r","e","m","o","t","e">>

\* calculate_location_match with the remote test of line 250 before the
\* containment test of line 245
calculate_location_match_remote_before_containment(job, candidate) ==
    IF FalsySeq(job.location) \/ FalsySeq(candidate.location) THEN Half
    ELSE The({IF job_location = candidate_location THEN One
              ELSE IF Contains(job_location, sRemoteLower)
                      \/ Contains(candidate_location, sRemoteLower) THEN Rat(9, 10)
              ELSE IF Contains(candidate_location, job_location)
                      \/ Contains(job_location, candidate_location) THEN Rat(8, 10)
              ELSE Rat(3, 10) :
                 job_location \in {Strip(Lower(Val(job.location)))},
                 candidate_location \in {Strip(Lower(Val(candidate.location)))}})

\* calculate_location_match with the remote test of line 250 before the
\* equality test of line 241
calculate_location_match_remote_first(job, candidate) ==
    IF FalsySeq(job.location) \/ FalsySeq(candidate.location) THEN Half
    ELSE The({IF Contains(job_location, sRemoteLower)
                 \/ Contains(candidate_location, sRemoteLower) THEN Rat(9, 10)
              ELSE IF job_location = candidate_location THEN One
              ELSE IF Contains(candidate_location, job_location)
                      \/ Contains(job_location, candidate_location) THEN Rat(8, 10)
              ELSE Rat(3, 10) :
                 job_location \in {Strip(Lower(Val(job.location)))},
                 candidate_location \in {Strip(Lower(Val(candidate.location)))}})

calculate_location_match(job, candidate) ==
    IF FalsySeq(job.location) \/ FalsySeq(candidate.location) THEN Half
    ELSE The({IF job_location = candidate_location THEN One
              ELSE IF Contains(candidate_location, job_location)
                      \/ Contains(job_location, candidate_location) THEN Rat(8, 10)
              ELSE IF Contains(job_location, sRemoteLower)
                      \/ Contains(candidate_location, sRemoteLower) THEN Rat(9, 10)
              ELSE Rat(3, 10) :
                 job_location \in {Strip(Lower(Val(job.location)))},
                 candidate_location \in {Strip(Lower(Val(candidate.location)))}})

-----------------------------------------------------------------------------
(* _calculate_culture_fit *)

\* resume_parsed['summary'] when resume_parsed has the key, else ""
CandidateSummary(candidate) ==
    IF ~FalsyDict(candidate.resume_parsed)
       /\ "summary" \in DOMAIN Val(candidate.resume_parsed)
    THEN Val(candidate.resume_parsed)["summary"]
    ELSE Some(<<>>)

\* Whether _calculate_culture_fit gets past `if not job_desc or not
\* candidate_summary` and calls the chat completion service.
AsksCultureService(job, candidate) ==
    Len(job.description) > 0 /\ ~FalsySeq(CandidateSummary(candidate))

Digits == <<"0","1","2","3","4","5","6","7","8","9">>
IsDigit(c) == \E i \in 1..10 : Digits[i] = c
DigitVal(c) == (CHOOSE i \in 1..10 : Digits[i] = c) - 1

RECURSIVE DigitsToInt(_)
DigitsToInt(s) ==
    IF s = <<>> THEN 0
    ELSE 10 * DigitsToInt(SubSeq(s, 1, Len(s) - 1)) + DigitVal(s[Len(s)])

RECURSIVE Pow10(_)
Pow10(k) == IF k = 0 THEN 1 ELSE 10 * Pow10(k - 1)

\* float(text) for the texts of AnswerTexts: an optionally signed decimal
\* literal (digits with at most one point and at least one digit) or "nan",
\* surrounded by white space; anything else raises ValueError (ok = FALSE).
ParseUnsigned(negative, body) ==
    LET dots == {i \in 1..Len(body) : body[i] = "."}
        dot == IF dots = {} THEN Len(body) + 1 ELSE SetMin(dots)
        intpart == SubSeq(body, 1, dot - 1)
        fracpart == SubSeq(body, dot + 1, Len(body))
        numeric == /\ Cardinality(dots) <= 1
                   /\ Len(body) > Cardinality(dots)
                   /\ \A i \in 1..Len(body) : i \in dots \/ IsDigit(body[i])
        magnitude == Rat(DigitsToInt(intpart \o fracpart), Pow10(Len(fracpart)))
    IN  IF Lower(body) = <<"n","a","n">>
        THEN [ok |-> TRUE, nan |-> TRUE, v |-> Zero]
        ELSE IF numeric
        THEN [ok |-> TRUE, nan |-> FALSE,
              v |-> IF negative THEN Rat(-magnitude[1], magnitude[2]) ELSE magnitude]
        ELSE [ok |-> FALSE, nan |-> FALSE, v |-> Zero]

ParseFloat(text) ==
    The({IF Len(t) > 0 /\ t[1] \in {"+", "-"}
         THEN The({ParseUnsigned(t[1] = "-", body) : body \in {Tail(t)}})
         ELSE ParseUnsigned(FALSE, t) :
            t \in {Strip(text)}})

\* ClampScore without the clamp of line 308
ClampScoreMissing(parsed) == parsed.v

\* max(0, min(1, score)); every comparison with a NaN is false, so min(1, nan)
\* keeps its first argument 1
ClampScore(parsed) ==
    IF parsed.nan THEN One ELSE RMax(Zero, RMin(One, parsed.v))

\* CultureFromAnswer with 0.0 where the two except clauses have 0.5
CultureFromAnswerZeroOnFailure(answer) ==
    IF answer.kind = "raise" \/ IsNone(answer.content) THEN Zero
    ELSE The({IF parsed.ok THEN RMax(Zero, RMin(One, parsed.v)) ELSE Zero :
                 parsed \in {ParseFloat(Strip(Val(answer.content)))}})

\* The value _calculate_culture_fit returns once the service has answered:
\*   kind "raise"   - chat.completions.create raised (caught at line 312)
\*   kind "content" - message.content is `content`; None.strip() raises
\*                    AttributeError (caught at line 312), text that float()
\*                    rejects gives 0.5 (line 309)
CultureFromAnswer(answer) ==
    IF answer.kind = "raise" \/ IsNone(answer.content) THEN Half
    ELSE The({IF parsed.ok THEN ClampScore(parsed) ELSE Half :
                 parsed \in {The({ParseFloat(score_text) :
                                     score_text \in {Strip(Val(answer.content))}})}})

-----------------------------------------------------------------------------
(* the weights and the overall score of calculate_fit_score *)

weights == [skill_match      |-> Rat(35, 100),
            experience_match |-> Rat(25, 100),
            education_match  |-> Rat(15, 100),
            location_match   |-> Rat(10, 100),
            culture_fit      |-> Rat(15, 100)]

\* OverallScore without the location term
OverallScoreNoLocation(scores) ==
    RAdd(RAdd(RAdd(RMul(scores.skill_match, weights.skill_match),
                   RMul(scores.experience_match, weights.experience_match)),
              RMul(scores.education_match, weights.education_match)),
         RMul(scores.culture_fit, weights.culture_fit))

OverallScore(scores) ==
    RAdd(RAdd(RAdd(RAdd(RMul(scores.skill_match, weights.skill_match),
                        RMul(scores.experience_match, weights.experience_match)),
                   RMul(scores.education_match, weights.education_match)),
              RMul(scores.location_match, weights.location_match)),
         RMul(scores.culture_fit, weights.culture_fit))

-----------------------------------------------------------------------------
(* _generate_recommendations *)

\* A recommendation string is kept as its rule (kind) and the values the
\* f-string formats into it: the skills joined by ', ' and the gap in years.
Rec(kind, skills, gap) == [kind |-> kind, skills |-> skills, gap |-> gap]

\* job.parsed_requirements.get(key, default) if job.parsed_requirements else default
RequirementOr(job, key, default) ==
    IF FalsyDict(job.parsed_requirements) THEN default
    ELSE DictGet(Val(job.parsed_requirements), key, default)

RECURSIVE MissingSkills(_, _)
MissingSkills(job_skills, candidate_skills) ==
    IF job_skills = <<>> THEN <<>>
    ELSE LET rest == MissingSkills(Tail(job_skills), candidate_skills)
         IN  IF \E i \in 1..Len(candidate_skills) :
                    Lower(candidate_skills[i]) = Lower(Head(job_skills))
             THEN rest
             ELSE <<Head(job_skills)>> \o rest

FirstN(s, n) == SubSeq(s, 1, IF Len(s) < n THEN Len(s) ELSE n)

generate_recommendations(job, candidate, scores) ==
    LET job_skills == RequirementOr(job, "required_skills", Some(<<>>))
        skill_rule == RLess(scores.skill_match, Rat(7, 10))
        \* iterating over None raises TypeError
        skill_raises == skill_rule /\ IsNone(job_skills)
        missing_skills == MissingSkills(Val(job_skills), CandidateSkills(candidate))
        r1 == IF skill_rule /\ missing_skills # <<>>
              THEN <<Rec("develop_skills", FirstN(missing_skills, 3), 0)>> ELSE <<>>
        required_exp == RequirementOr(job, "experience_required", Some(0))
        candidate_exp == IF FalsyNum(candidate.experience_years) THEN 0
                         ELSE Val(candidate.experience_years)
        exp_rule == RLess(scores.experience_match, Rat(8, 10))
        \* candidate_exp < None raises TypeError
        exp_raises == exp_rule /\ IsNone(required_exp)
        r2 == IF exp_rule /\ candidate_exp < Val(required_exp)
              THEN <<Rec("gain_experience", <<>>, Val(required_exp) - candidate_exp)>>
              ELSE <<>>
        r3 == IF RLess(scores.culture_fit, Rat(6, 10))
              THEN <<Rec("research_culture", <<>>, 0)>> ELSE <<>>
        r4 == IF RLess(Rat(9, 10), scores.skill_match)
              THEN <<Rec("excellent_skill_match", <<>>, 0)>> ELSE <<>>
        r5 == IF RLess(Rat(9, 10), scores.experience_match)
              THEN <<Rec("strong_experience_match", <<>>, 0)>> ELSE <<>>
    IN  IF skill_raises \/ exp_raises
        THEN <<Rec("consider_applying", <<>>, 0)>>
        ELSE LET recommendations == r1 \o r2 \o r3 \o r4 \o r5
             IN  IF recommendations = <<>>
                 THEN <<Rec("good_overall_match", <<>>, 0)>>
                 ELSE FirstN(recommendations, 5)

-----------------------------------------------------------------------------
(* _get_score_breakdown *)

get_score_breakdown(job, candidate) ==
    [job_analysis |->
        [required_skills |-> RequirementOr(job, "required_skills", Some(<<>>)),
         experience_required |-> RequirementOr(job, "experience_required", Some(0))],
     candidate_analysis |->
        [skills |-> CandidateSkills(candidate),
         experience_years |-> candidate.experience_years]]

-----------------------------------------------------------------------------
(* The records of the model *)

sPython == <<"P","y","t","h","o","n">>
sPythonLower == <<"p","y","t","h","o","n">>
sAWS == <<"A","W","S">>
sDocker == <<"D","o","c","k","e","r">>
sReact == <<"R","e","a","c","t">>
sBachelor == <<"B","a","c","h","e","l","o","r">>
sMasters == <<"M","a","s","t","e","r","'","s"," ","d","e","g","r","e","e">>
sRemote == <<"R","e","m","o","t","e">>
sNYC == <<"N","Y","C">>
sText == <<"t","e","a","m">>
sPythonScript == <<"P","y","t","h","o","n","S","c","r","i","p","t">>
sHighSchool == <<"H","i","g","h"," ","S","c","h","o","o","l">>
sPhD == <<"P","h","D">>
sDiploma == <<"D","i","p","l","o","m","a">>
sCertificate == <<"C","e","r","t","i","f","i","c","a","t","e">>
sBachelorAndMaster == <<"B","a","c","h","e","l","o","r"," ","a","n","d"," ","M","a","s","t","e","r">>
sPhDMBA == <<"P","h","D",","," ","M","B","A">>
sMBA == <<"M","B","A">>
sSanFrancisco == <<"S","a","n"," ","F","r","a","n","c","i","s","c","o">>
sRemoteUS == <<"R","e","m","o","t","e"," ","-"," ","U","S">>
sRemotePadded == <<" ","R","e","m","o","t","e"," ">>
sBoston == <<"B","o","s","t","o","n">>

\* a dict with no key / with the one key k
NoKey == [k \in {} |-> None]
Key(k, v) == k :> v

Organizations == {"O1", "O2"}
JobIds == {"J1"}
CandidateIds == {"C1", "C2"}

Job(id, parsed_requirements, requirements, location, description) ==
    [id |-> id, organization_id |-> "O1",
     parsed_requirements |-> parsed_requirements, requirements |-> requirements,
     location |-> location, description |-> description]

Candidate(id, skills, experience_years, resume_parsed, location) ==
    [id |-> id, organization_id |-> "O1",
     skills |-> skills, experience_years |-> experience_years,
     resume_parsed |-> resume_parsed, location |-> location]

\* what the chat completion service may answer
AnswerTexts ==
    { <<"0",".","7">>, <<" ","1",".","5","\n">>, <<"-","0",".","5">>,
      <<"n","a","n">>, <<"h","i","g","h">> }

Answers ==
    {[kind |-> "raise", content |-> None]}
    \cup {[kind |-> "content", content |-> c] : c \in {None} \cup {Some(t) : t \in AnswerTexts}}

\* `response` is what the most recent request returned, with the request it
\* answers: request.answer is what the chat completion service did in it
NotAsked == [kind |-> "not_asked", content |-> None]
TimedOut == [kind |-> "timeout", content |-> None]

-----------------------------------------------------------------------------
(* calculate_fit_score *)

JobFound(job_id, organization_id) ==
    job_id \in DOMAIN jobs /\ jobs[job_id].organization_id = organization_id

CandidateFound(candidate_id, organization_id) ==
    candidate_id \in DOMAIN candidates
    /\ candidates[candidate_id].organization_id = organization_id

\* the four scores computed before the chat completion call
LocalScores(job, candidate) ==
    [skill_match      |-> calculate_skill_match(job, candidate),
     experience_match |-> calculate_experience_match(job, candidate),
     education_match  |-> calculate_education_match(job, candidate),
     location_match   |-> calculate_location_match(job, candidate)]

\* the five scores, once _calculate_culture_fit has returned
AllScores(local, culture_fit) ==
    [skill_match      |-> local.skill_match,
     experience_match |-> local.experience_match,
     education_match  |-> local.education_match,
     location_match   |-> local.location_match,
     culture_fit      |-> culture_fit]

\* ApplicationOf without the query of lines 70-73: always a new Application
ApplicationOfAlwaysNew(table, job_id, candidate_id, organization_id) ==
    [id |-> Cardinality(DOMAIN table) + 1, job_id |-> job_id,
     candidate_id |-> candidate_id, organization_id |-> organization_id,
     fit_score |-> None, fit_score_details |-> None]

\* lines 69-81: the Application of the pair, or a new one with a fresh id
ApplicationOf(table, job_id, candidate_id, organization_id) ==
    IF <<job_id, candidate_id>> \in DOMAIN table
    THEN table[<<job_id, candidate_id>>]
    ELSE [id |-> Cardinality(DOMAIN table) + 1, job_id |-> job_id,
          candidate_id |-> candidate_id, organization_id |-> organization_id,
          fit_score |-> None, fit_score_details |-> None]

\* lines 83-92
ScoreDetails(scores, calculated_at) ==
    [skill_match      |-> scores.skill_match,
     experience_match |-> scores.experience_match,
     education_match  |-> scores.education_match,
     location_match   |-> scores.location_match,
     culture_fit      |-> scores.culture_fit,
     weights          |-> weights,
     calculated_at    |-> calculated_at]

\* StoreScore without line 84 when the Application already has details
StoreScoreKeepsDetails(application, overall_score, details) ==
    [application EXCEPT !.fit_score = Some(overall_score),
                        !.fit_score_details =
                            IF IsNone(@) THEN Some(details) ELSE @]

\* lines 83 and 84: the two assignments to the Application
StoreScore(application, overall_score, details) ==
    [application EXCEPT !.fit_score = Some(overall_score),
                        !.fit_score_details = Some(details)]

\* lines 96-109
FitScoreResponse(application, job, candidate, scores, overall_score, recommendations, generated_at) ==
    [     application_id |-> application.id,
     job_id |-> job.id,
     candidate_id |-> candidate.id,
     overall_score |-> overall_score,
     skill_match |-> scores.skill_match,
     experience_match |-> scores.experience_match,
     education_match |-> scores.education_match,
     location_match |-> scores.location_match,
     culture_fit |-> scores.culture_fit,
     breakdown |-> get_score_breakdown(job, candidate),
     recommendations |-> recommendations,
     generated_at |-> generated_at]

ScoreRequest(job_id, candidate_id, organization_id, answer) ==
    [op |-> "calculate_fit_score", job_id |-> job_id, candidate_id |-> candidate_id,
     organization_id |-> organization_id, limit |-> 0, answer |-> answer]

\* Complete when the score is written to every Application of the job
CompleteWholeJob(job, candidate, organization_id, local, culture_fit, answer) ==
    \E scores \in {AllScores(local, culture_fit)} :
    \E overall_score \in {OverallScore(scores)} :
    \E recommendations \in {generate_recommendations(job, candidate, scores)} :
    \E application \in {ApplicationOf(apps, job.id, candidate.id, organization_id)} :
    \E calculated_at \in clock..MaxClock :
    \E generated_at \in calculated_at..MaxClock :
    \E stored \in {StoreScore(application, overall_score,
                                ScoreDetails(scores, calculated_at))} :
                /\ apps' = [k \in DOMAIN apps \cup {<<job.id, candidate.id>>} |->
                               IF k = <<job.id, candidate.id>> THEN stored
                               ELSE IF k[1] = job.id
                                    THEN StoreScore(apps[k], overall_score,
                                                    ScoreDetails(scores, calculated_at))
                                    ELSE apps[k]]
                /\ response' =
                      [status |-> "ok",
                       request |-> ScoreRequest(job.id, candidate.id, organization_id, answer),
                       result |-> FitScoreResponse(stored, job, candidate, scores,
                                      overall_score, recommendations, generated_at)]
                /\ clock' = generated_at
                /\ pending' = None

\* lines 43-109 of calculate_fit_score, once the five scores are known
\* (each value is bound once, in the order the code computes it)
Complete(job, candidate, organization_id, local, culture_fit, answer) ==
    \E scores \in {AllScores(local, culture_fit)} :
    \E overall_score \in {OverallScore(scores)} :
    \E recommendations \in {generate_recommendations(job, candidate, scores)} :
    \E application \in {ApplicationOf(apps, job.id, candidate.id, organization_id)} :
    \E calculated_at \in clock..MaxClock :
    \E generated_at \in calculated_at..MaxClock :
    \E stored \in {StoreScore(application, overall_score,
                                ScoreDetails(scores, calculated_at))} :
                /\ apps' = (<<job.id, candidate.id>> :> stored) @@ apps
                /\ response' =
                      [status |-> "ok",
                       request |-> ScoreRequest(job.id, candidate.id, organization_id, answer),
                       result |-> FitScoreResponse(stored, job, candidate, scores,
                                      overall_score, recommendations, generated_at)]
                /\ clock' = generated_at
                /\ pending' = None

\* line 33-34: raise ValueError("Job or candidate not found")
ScoreNotFound(job_id, candidate_id, organization_id) ==
    /\ IsNone(pending)
    /\ ~(JobFound(job_id, organization_id) /\ CandidateFound(candidate_id, organization_id))
    /\ response' = [status |-> "error",
                    request |-> ScoreRequest(job_id, candidate_id, organization_id, NotAsked),
                    result |-> "Job or candidate not found"]
    /\ UNCHANGED <<routes, jobs, candidates, apps, pending, clock, memo, calls>>

\* a call whose culture fit is the neutral 0.5 of line 270: no service call
ScoreLocal(job_id, candidate_id, organization_id) ==
    /\ IsNone(pending)
    /\ JobFound(job_id, organization_id)
    /\ CandidateFound(candidate_id, organization_id)
    /\ ~AsksCultureService(jobs[job_id], candidates[candidate_id])
    /\ \E job \in {jobs[job_id]}, candidate \in {candidates[candidate_id]} :
       \E local \in {LocalScores(job, candidate)} :
           Complete(job, candidate, organization_id, local, Half, NotAsked)
    /\ UNCHANGED <<routes, jobs, candidates, memo, calls>>

\* a call that reaches chat.completions.create (line 297) and waits there
ScoreAsk(job_id, candidate_id, organization_id) ==
    /\ IsNone(pending)
    /\ JobFound(job_id, organization_id)
    /\ CandidateFound(candidate_id, organization_id)
    /\ AsksCultureService(jobs[job_id], candidates[candidate_id])
    /\ pending' = Some([job |-> jobs[job_id], candidate |-> candidates[candidate_id],
                        organization_id |-> organization_id,
                        scores |-> LocalScores(jobs[job_id], candidates[candidate_id])])
    /\ UNCHANGED <<routes, jobs, candidates, apps, response, clock, memo, calls>>

\* the service answers (or the client raises an API error) and the call goes on
CultureReply(answer) ==
    /\ ~IsNone(pending)
    /\ \E call \in {Val(pending)}, culture_fit \in {CultureFromAnswer(answer)} :
           Complete(call.job, call.candidate, call.organization_id, call.scores,
                    culture_fit, answer)
    /\ UNCHANGED <<routes, jobs, candidates, memo, calls>>

\* ClientTimeout without the except clause of line 312: the error leaves
\* calculate_fit_score
ClientTimeoutRaises ==
    /\ ~IsNone(pending)
    /\ response' = [status |-> "error",
                    request |-> ScoreRequest(Val(pending).job.id, Val(pending).candidate.id,
                                             Val(pending).organization_id, TimedOut),
                    result |-> "Request timed out"]
    /\ pending' = None
    /\ UNCHANGED <<routes, jobs, candidates, apps, clock, memo, calls>>

\* the service never answers: the client gives up and chat.completions.create
\* raises its timeout error, which line 312 catches like any other Exception
ClientTimeout ==
    /\ ~IsNone(pending)
    /\ \E call \in {Val(pending)} :
           Complete(call.job, call.candidate, call.organization_id, call.scores,
                    Half, TimedOut)
    /\ UNCHANGED <<routes, jobs, candidates, memo, calls>>

-----------------------------------------------------------------------------
(* get_top_candidates *)

\* ORDER BY fit_score DESC: every order of the rows in which the scores do not
\* increase; the database is free in the order of rows with equal scores
ScoreDescOrders(rows) ==
    {s \in [1..Cardinality(rows) -> rows] :
        /\ \A i, k \in 1..Cardinality(rows) : i # k => s[i] # s[k]
        /\ \A i \in 1..(Cardinality(rows) - 1) :
               RLeq(Val(s[i + 1].fit_score), Val(s[i].fit_score))}

\* lines 385-394: the result entry of one application
TopEntry(app) ==
    [candidate |-> app.candidate_id, application |-> app.id,
     fit_score |-> Val(app.fit_score), fit_score_details |-> Val(app.fit_score_details)]

get_top_candidates(job_id, organization_id, limit) ==
    \E rows \in {{apps[k] : k \in {q \in DOMAIN apps :
                     apps[q].job_id = job_id /\ apps[q].organization_id = organization_id}}} :
        \E order \in ScoreDescOrders(rows) :
            LET applications == FirstN(order, limit)
                kept == SelectSeq(applications, LAMBDA a : a.candidate_id \in DOMAIN candidates)
            IN  /\ response' =
                      [status |-> "ok",
                       request |-> [op |-> "get_top_candidates", job_id |-> job_id,
                                    candidate_id |-> "", organization_id |-> organization_id,
                                    limit |-> limit, answer |-> NotAsked],
                       result |-> [i \in 1..Len(kept) |-> TopEntry(kept[i])]]
                /\ UNCHANGED <<routes, jobs, candidates, apps, pending, clock, memo, calls>>

-----------------------------------------------------------------------------
(* calculate_fit_score in several worker processes (uvicorn.run, workers=4) *)

\* Each worker process has its own database session and serves one request
\* at a time.  calls[w] is the request worker w is serving: `n` counts its
\* requests, `stage` is how far calculate_fit_score has come, `call` holds
\* its local values, `application` the row its query of line 70 found, and
\* `result` what it returned.  The statements that reach the database are
\* steps of their own, between which the other workers run.
WorkerIds == {"w1", "w2"}

NoResponse == [status |-> "none"]

Idle == [n |-> 0, stage |-> "idle", call |-> None, application |-> None,
         result |-> NoResponse]

CallPair(w) == <<Val(calls[w].call).job.id, Val(calls[w].call).candidate.id>>

\* the requests the workers have taken so far
RECURSIVE CallsBegun(_)
CallsBegun(workers) ==
    IF workers = {} THEN 0
    ELSE LET w == CHOOSE v \in workers : TRUE
         IN  calls[w].n + CallsBegun(workers \ {w})

\* no other worker is serving a request for the pair
PairFree(w, job_id, candidate_id) ==
    \A v \in WorkerIds \ {w} :
        calls[v].stage \in {"waiting", "scored", "queried"}
            => CallPair(v) # <<job_id, candidate_id>>

\* lines 30-40: the two queries and the four local sub-scores; the call then
\* waits for the chat completion service or has its culture fit 0.5 (line 270)
ConcBegin(w, job_id, candidate_id, organization_id) ==
    /\ calls[w].stage \in {"idle", "done", "failed"}
    /\ CallsBegun(WorkerIds) < MaxCalls
    /\ IF ~(JobFound(job_id, organization_id) /\ CandidateFound(candidate_id, organization_id))
       THEN calls' = [calls EXCEPT ![w] =
                [n |-> @.n + 1, stage |-> "failed", call |-> None, application |-> None,
                 result |-> [status |-> "error",
                             request |-> ScoreRequest(job_id, candidate_id,
                                                      organization_id, NotAsked),
                             result |-> "Job or candidate not found"]]]
       ELSE \E job \in {jobs[job_id]}, candidate \in {candidates[candidate_id]} :
            \E local \in {LocalScores(job, candidate)} :
                calls' = [calls EXCEPT ![w] =
                    [n |-> @.n + 1,
                     stage |-> IF AsksCultureService(job, candidate)
                               THEN "waiting" ELSE "scored",
                     call |-> Some([job |-> job, candidate |-> candidate,
                                    organization_id |-> organization_id,
                                    scores |-> local, culture_fit |-> Half,
                                    answer |-> NotAsked]),
                     application |-> None, result |-> NoResponse]]
    /\ UNCHANGED <<routes, jobs, candidates, apps, pending, response, clock, memo>>

\* lines 297-310: the service answers worker w's call
ConcReply(w, answer) ==
    /\ calls[w].stage = "waiting"
    /\ \E culture_fit \in {CultureFromAnswer(answer)} :
           calls' = [calls EXCEPT ![w].stage = "scored",
                                  ![w].call = Some([Val(@) EXCEPT
                                                       !.culture_fit = culture_fit,
                                                       !.answer = answer])]
    /\ UNCHANGED <<routes, jobs, candidates, apps, pending, response, clock, memo>>

\* lines 297 and 312-314: the client gives up on worker w's call
ConcTimeout(w) ==
    /\ calls[w].stage = "waiting"
    /\ calls' = [calls EXCEPT ![w].stage = "scored",
                              ![w].call = Some([Val(@) EXCEPT !.answer = TimedOut])]
    /\ UNCHANGED <<routes, jobs, candidates, apps, pending, response, clock, memo>>

\* lines 70-73: the query for the pair's Application
ConcQuery(w) ==
    /\ calls[w].stage = "scored"
    /\ calls' = [calls EXCEPT ![w].stage = "queried",
                              ![w].application =
                                  IF CallPair(w) \in DOMAIN apps
                                  THEN Some(apps[CallPair(w)]) ELSE None]
    /\ UNCHANGED <<routes, jobs, candidates, apps, pending, response, clock, memo>>

\* ConcCommit when the UPDATE names the job only: every Application of the
\* job gets the score of the call
ConcCommitWholeJob(w) ==
    /\ calls[w].stage = "queried"
    /\ \E call \in {Val(calls[w].call)} :
       IF IsNone(calls[w].application) /\ CallPair(w) \in DOMAIN apps
       THEN /\ calls' = [calls EXCEPT ![w].stage = "failed",
                            ![w].result =
                                [status |-> "error",
                                 request |-> ScoreRequest(call.job.id, call.candidate.id,
                                                 call.organization_id, call.answer),
                                 result |-> "IntegrityError"]]
            /\ UNCHANGED <<apps, clock>>
       ELSE \E scores \in {AllScores(call.scores, call.culture_fit)} :
            \E overall_score \in {OverallScore(scores)} :
            \E recommendations \in {generate_recommendations(call.job, call.candidate, scores)} :
            \E application \in {IF IsNone(calls[w].application)
                                  THEN ApplicationOf(apps, call.job.id, call.candidate.id,
                                                     call.organization_id)
                                  ELSE Val(calls[w].application)} :
            \E calculated_at \in clock..MaxClock :
            \E generated_at \in calculated_at..MaxClock :
            \E stored \in {StoreScore(application, overall_score,
                                        ScoreDetails(scores, calculated_at))} :
                /\ apps' = [k \in DOMAIN apps \cup {CallPair(w)} |->
                               IF k = CallPair(w) THEN stored
                               ELSE IF k[1] = call.job.id
                                    THEN StoreScore(apps[k], overall_score,
                                                    ScoreDetails(scores, calculated_at))
                                    ELSE apps[k]]
                /\ calls' = [calls EXCEPT ![w].stage = "done",
                                ![w].result =
                                    [status |-> "ok",
                                     request |-> ScoreRequest(call.job.id, call.candidate.id,
                                                     call.organization_id, call.answer),
                                     result |-> FitScoreResponse(stored, call.job,
                                                    call.candidate, scores, overall_score,
                                                    recommendations, generated_at)]]
                /\ clock' = generated_at
    /\ UNCHANGED <<routes, jobs, candidates, pending, response, memo>>

\* lines 75-109: the INSERT or UPDATE of the Application at db.commit() and
\* the response.  An INSERT for a pair that has got a row since the query
\* breaks the unique index idx_job_candidate: commit raises, and
\* calculate_fit_score raises it on (lines 111-113).
ConcCommit(w) ==
    /\ calls[w].stage = "queried"
    /\ \E call \in {Val(calls[w].call)} :
       IF IsNone(calls[w].application) /\ CallPair(w) \in DOMAIN apps
       THEN /\ calls' = [calls EXCEPT ![w].stage = "failed",
                            ![w].result =
                                [status |-> "error",
                                 request |-> ScoreRequest(call.job.id, call.candidate.id,
                                                 call.organization_id, call.answer),
                                 result |-> "IntegrityError"]]
            /\ UNCHANGED <<apps, clock>>
       ELSE \E scores \in {AllScores(call.scores, call.culture_fit)} :
            \E overall_score \in {OverallScore(scores)} :
            \E recommendations \in {generate_recommendations(call.job, call.candidate, scores)} :
            \E application \in {IF IsNone(calls[w].application)
                                  THEN ApplicationOf(apps, call.job.id, call.candidate.id,
                                                     call.organization_id)
                                  ELSE Val(calls[w].application)} :
            \E calculated_at \in clock..MaxClock :
            \E generated_at \in calculated_at..MaxClock :
            \E stored \in {StoreScore(application, overall_score,
                                        ScoreDetails(scores, calculated_at))} :
                /\ apps' = (CallPair(w) :> stored) @@ apps
                /\ calls' = [calls EXCEPT ![w].stage = "done",
                                ![w].result =
                                    [status |-> "ok",
                                     request |-> ScoreRequest(call.job.id, call.candidate.id,
                                                     call.organization_id, call.answer),
                                     result |-> FitScoreResponse(stored, call.job,
                                                    call.candidate, scores, overall_score,
                                                    recommendations, generated_at)]]
                /\ clock' = generated_at
    /\ UNCHANGED <<routes, jobs, candidates, pending, response, memo>>

-----------------------------------------------------------------------------
(* Specifications *)

Next ==
    \/ \E j \in JobIds, c \in CandidateIds, o \in Organizations : ScoreNotFound(j, c, o)
    \/ \E j \in JobIds, c \in CandidateIds, o \in Organizations : ScoreLocal(j, c, o)
    \/ \E j \in JobIds, c \in CandidateIds, o \in Organizations : ScoreAsk(j, c, o)
    \/ \E a \in Answers : CultureReply(a)
    \/ ClientTimeout
    \/ \E j \in JobIds, o \in Organizations, n \in 0..MaxLimit : get_top_candidates(j, o, n)

\* A client keeps the FitScoreResponse it has just received, to compare a
\* later one with it.
Remember ==
    /\ response.status = "ok"
    /\ response.request.op = "calculate_fit_score"
    /\ memo' = response
    /\ UNCHANGED <<routes, jobs, candidates, apps, pending, response, clock, calls>>

\* calculate_fit_score alone
ScoreNext ==
    \/ \E j \in JobIds, c \in CandidateIds, o \in Organizations : ScoreLocal(j, c, o)
    \/ \E j \in JobIds, c \in CandidateIds, o \in Organizations : ScoreAsk(j, c, o)
    \/ \E a \in Answers : CultureReply(a)
    \/ ClientTimeout

\* no request has been served yet
InitService ==
    /\ apps = [k \in {} |-> None]
    /\ pending = None
    /\ response = NoResponse
    /\ clock = 0
    /\ memo = NoResponse
    /\ calls = [w \in WorkerIds |-> Idle]

\* the tables of the routes and of the interview service are empty
InitRoutes ==
    /\ cands = [k \in {} |-> None]
    /\ activity_logs = <<>>
    /\ posts = [k \in {} |-> None]
    /\ interviews = {}
    /\ reply = NoResponse

InitCalls == InitService /\ InitRoutes

\* The tables of a small organization: one job and two candidates, of which
\* the first or both have no summary (their culture fit needs no service call).
FullRequirements ==
    Key("required_skills", Some(<<sPython, sAWS>>))
    @@ Key("experience_required", Some(5))
    @@ Key("education_required", Some(sBachelor))

FullResume == Key("education", Some(<<sMasters>>)) @@ Key("summary", Some(sText))

FullJob == Job("J1", Some(FullRequirements), None, Some(sRemote), sText)

FullCandidate(id) ==
    Candidate(id, Some(<<sPythonLower, sDocker>>), Some(3), Some(FullResume), Some(sRemote))

NoSummaryCandidate(id) ==
    Candidate(id, Some(<<sPythonLower, sDocker>>), Some(3),
              Some(Key("education", Some(<<sMasters>>))), Some(sRemote))

Init ==
    /\ jobs = ("J1" :> FullJob)
    /\ \E c1 \in {FullCandidate("C1"), NoSummaryCandidate("C1")},
          c2 \in {FullCandidate("C2"), NoSummaryCandidate("C2")} :
           candidates = ("C1" :> c1) @@ ("C2" :> c2)
    /\ InitCalls

Spec == Init /\ [][Next]_vars


\* Scoring calls for the two candidates, and a client that compares responses.
InitHist ==
    /\ jobs = ("J1" :> FullJob)
    /\ candidates = ("C1" :> FullCandidate("C1")) @@ ("C2" :> NoSummaryCandidate("C2"))
    /\ InitCalls

HistNext == ScoreNext \/ Remember

HistSpec == InitHist /\ [][HistNext]_vars

\* The same scoring calls when the service may never answer.  The client
\* library gives up on a call that gets no answer (its default timeout; the
\* code passes none of its own), so a waiting call does not wait forever.
LiveSpec == InitHist /\ [][ScoreNext]_vars /\ WF_vars(ClientTimeout)

\* One job and one candidate with every combination of absent fields, and a
\* job and a candidate with all fields and different numbers of years.
ParsedRequirementsOptions ==
    {None} \cup
    {Some(rs @@ er @@ ed) :
        rs \in {NoKey, Key("required_skills", Some(<<sPython, sAWS>>))},
        er \in {NoKey, Key("experience_required", None),
                Key("experience_required", Some(5))},
        ed \in {NoKey, Key("education_required", Some(sBachelor))}}

\* Job.requirements is read only when parsed_requirements has no required_skills
RequirementsOptions(parsed_requirements) ==
    IF ~FalsyDict(parsed_requirements)
       /\ "required_skills" \in DOMAIN Val(parsed_requirements)
    THEN {None}
    ELSE {None, Some(<<sReact, sPython>>)}

ResumeParsedOptions ==
    {None} \cup
    {Some(ed @@ su) :
        ed \in {NoKey, Key("education", Some(<<sMasters>>))},
        su \in {NoKey, Key("summary", Some(sText))}}

AbsentJobs ==
    UNION {{Job("J1", pr, rq, lo, de) :
                rq \in RequirementsOptions(pr), lo \in {None, Some(sRemote)},
                de \in {<<>>, sText}} :
           pr \in ParsedRequirementsOptions}

AbsentCandidates ==
    {Candidate("C1", sk, ye, rp, lo) :
        sk \in {None, Some(<<sPythonLower, sDocker>>)}, ye \in {None, Some(3)},
        rp \in ResumeParsedOptions, lo \in {None, Some(sNYC)}}

RequiredYears == {-5, 5}
CandidateYears == {-7, -2, 3, 10}

YearsJobs ==
    {Job("J1", Some(Key("experience_required", Some(y)) @@ FullRequirements),
         None, Some(sRemote), sText) : y \in RequiredYears}

YearsCandidates ==
    {[FullCandidate("C1") EXCEPT !.experience_years = Some(y)] : y \in CandidateYears}

InitAny ==
    /\ \/ \E j \in AbsentJobs : jobs = ("J1" :> j)
       \/ \E j \in YearsJobs : jobs = ("J1" :> j)
    /\ \/ /\ jobs["J1"] \in AbsentJobs
          /\ \E c \in AbsentCandidates : candidates = ("C1" :> c)
       \/ /\ jobs["J1"] \in YearsJobs
          /\ \E c \in YearsCandidates : candidates = ("C1" :> c)
    /\ InitCalls

ScoreSpec == InitAny /\ [][ScoreNext]_vars

\* One job and one candidate for each sub-score, with the values that reach
\* every branch of the sub-score; the other fields are those of the full records.
SkillJobs ==
    {Job("J1", Some(Key("required_skills", Some(rs))), None, Some(sRemote), sText) :
        rs \in {<<>>, <<sPython>>, <<sPython, sReact>>, <<sPython, sAWS>>}}

SkillCandidates ==
    {Candidate("C1", Some(cs), Some(3), rp, Some(sRemote)) :
        cs \in {<<>>, <<sPythonScript>>, <<sPythonScript, sPythonLower>>,
                <<sPythonLower, sPythonScript>>, <<sPythonLower, sDocker>>},
        rp \in {None, Some(FullResume)}}

ExperienceJobs ==
    {Job("J1", Some(er), None, Some(sRemote), sText) :
        er \in {NoKey, Key("experience_required", None)}
               \cup {Key("experience_required", Some(y)) : y \in {0, 5, 10}}}

ExperienceCandidates ==
    {Candidate("C1", Some(<<sPythonLower>>), ye, None, Some(sRemote)) :
        ye \in {None, Some(0), Some(3), Some(5), Some(10)}}

EducationJobs ==
    {Job("J1", Some(ed), None, Some(sRemote), sText) :
        ed \in {NoKey} \cup {Key("education_required", Some(t)) :
                    t \in {sBachelor, sPhD, sDiploma, sBachelorAndMaster, sPhDMBA}}}

EducationCandidates ==
    {Candidate("C1", Some(<<sPythonLower>>), Some(3), rp, Some(sRemote)) :
        rp \in {None, Some(Key("education", Some(<<>>)))}
               \cup {Some(Key("education", Some(<<t>>))) :
                        t \in {sMasters, sHighSchool, sCertificate, sBachelor, sMBA,
                               sBachelorAndMaster}}}

LocationJobs ==
    {Job("J1", Some(FullRequirements), None, lo, sText) :
        lo \in {None, Some(sRemote), Some(sRemotePadded), Some(sNYC)}}

LocationCandidates ==
    {Candidate("C1", Some(<<sPythonLower>>), Some(3), None, lo) :
        lo \in {None, Some(sSanFrancisco), Some(sRemoteLower), Some(sRemoteUS),
                Some(sNYC), Some(sBoston)}}

InitCases ==
    /\ \E j \in SkillJobs \cup ExperienceJobs \cup EducationJobs \cup LocationJobs :
           jobs = ("J1" :> j)
    /\ \/ /\ jobs["J1"] \in SkillJobs
          /\ \E c \in SkillCandidates : candidates = ("C1" :> c)
       \/ /\ jobs["J1"] \in ExperienceJobs
          /\ \E c \in ExperienceCandidates : candidates = ("C1" :> c)
       \/ /\ jobs["J1"] \in EducationJobs
          /\ \E c \in EducationCandidates : candidates = ("C1" :> c)
       \/ /\ jobs["J1"] \in LocationJobs
          /\ \E c \in LocationCandidates : candidates = ("C1" :> c)
    /\ InitCalls

CaseSpec == InitCases /\ [][ScoreNext]_vars

\* Scoring calls in two worker processes, never two at a time for one pair.
ConcBeginDistinct(w, job_id, candidate_id, organization_id) ==
    PairFree(w, job_id, candidate_id) /\ ConcBegin(w, job_id, candidate_id, organization_id)

ConcNext ==
    \/ \E w \in WorkerIds, j \in JobIds, c \in CandidateIds, o \in Organizations :
           ConcBeginDistinct(w, j, c, o)
    \/ \E w \in WorkerIds, a \in Answers : ConcReply(w, a)
    \/ \E w \in WorkerIds : ConcTimeout(w)
    \/ \E w \in WorkerIds : ConcQuery(w)
    \/ \E w \in WorkerIds : ConcCommit(w)

ConcSpec == InitHist /\ [][ConcNext]_vars

\* The workers serve whatever requests arrive, also two for the same pair at
\* the same time.
RaceNext ==
    \/ \E w \in WorkerIds, j \in JobIds, c \in CandidateIds, o \in Organizations :
           ConcBegin(w, j, c, o)
    \/ \E w \in WorkerIds, a \in Answers : ConcReply(w, a)
    \/ \E w \in WorkerIds : ConcTimeout(w)
    \/ \E w \in WorkerIds : ConcQuery(w)
    \/ \E w \in WorkerIds : ConcCommit(w)

RaceSpec == InitHist /\ [][RaceNext]_vars

-----------------------------------------------------------------------------
(* Pipeline route: move_candidate_stage (api/routes/pipeline.py) *)

\* core/database.py, CandidateStage
CandidateStage ==
    {"new", "screening", "shortlist", "interview", "offer", "hired", "rejected"}

\* a row of the candidates table of the routes: Candidate.stage has the
\* default CandidateStage.NEW
PipelineCandidate(id, organization_id, job_id, created_at) ==
    [id |-> id, organization_id |-> organization_id, job_id |-> job_id,
     stage |-> "new", created_at |-> created_at]

\* The statement of the handler at which the database (or log_activity)
\* raises; "none" when every statement succeeds.
MoveFailures == {"none", "execute", "commit", "refresh", "log_activity"}

MoveRequest(candidate_id, to_stage, organization_id) ==
    [op |-> "move_candidate_stage", candidate_id |-> candidate_id,
     to_stage |-> to_stage, organization_id |-> organization_id]

\* log_activity(db, organization_id, user_id, entity_type, entity_id, action,
\* details): the ActivityLog row it adds
log_activity(organization_id, entity_type, entity_id, action, details) ==
    [id |-> Len(activity_logs) + 1, organization_id |-> organization_id,
     entity_type |-> entity_type, entity_id |-> entity_id, action |-> action,
     details |-> details]

\* lines 23-84.  The stage is committed at line 54; what raises behind it
\* (refresh, line 55; log_activity, line 58) is answered with 500 after a
\* rollback that has nothing left to undo.
move_candidate_stage(candidate_id, to_stage, organization_id, failure) ==
    /\ Len(activity_logs) < MaxActivities
    /\ \E request \in {MoveRequest(candidate_id, to_stage, organization_id)} :
       IF failure = "execute"
       THEN /\ reply' = [status |-> "error", code |-> 500, request |-> request]
            /\ UNCHANGED <<cands, activity_logs>>
       ELSE IF candidate_id \notin DOMAIN cands
       THEN /\ reply' = [status |-> "error", code |-> 404, request |-> request]
            /\ UNCHANGED <<cands, activity_logs>>
       ELSE IF cands[candidate_id].organization_id # organization_id
       THEN /\ reply' = [status |-> "error", code |-> 403, request |-> request]
            /\ UNCHANGED <<cands, activity_logs>>
       ELSE IF failure = "commit"
       THEN /\ reply' = [status |-> "error", code |-> 500, request |-> request]
            /\ UNCHANGED <<cands, activity_logs>>
       ELSE \E old_stage \in {cands[candidate_id].stage} :
            /\ cands' = [cands EXCEPT ![candidate_id].stage = to_stage]
            /\ IF failure \in {"refresh", "log_activity"}
               THEN /\ reply' = [status |-> "error", code |-> 500, request |-> request]
                    /\ UNCHANGED activity_logs
               ELSE \E activity \in {log_activity(cands[candidate_id].organization_id,
                                         "candidate", candidate_id, "stage_changed",
                                         [from_stage |-> old_stage, to_stage |-> to_stage])} :
                        /\ activity_logs' = Append(activity_logs, activity)
                        /\ reply' = [status |-> "ok", code |-> 200, request |-> request,
                                     candidate |-> cands'[candidate_id],
                                     activity_id |-> activity.id]
    /\ UNCHANGED <<scoring, posts, interviews>>

PipelineCandidateIds == {"P1", "P2", "P3"}

\* two candidates of two organizations; no row has the id P3
InitPipeline ==
    /\ jobs = ("J1" :> FullJob)
    /\ candidates = ("C1" :> FullCandidate("C1"))
    /\ InitService
    /\ cands = ("P1" :> PipelineCandidate("P1", "O1", "J1", 0))
               @@ ("P2" :> PipelineCandidate("P2", "O2", "J1", 0))
    /\ activity_logs = <<>>
    /\ posts = [k \in {} |-> None]
    /\ interviews = {}
    /\ reply = NoResponse

\* the stages the requests of the model ask for
RequestedStages == {"new", "screening", "shortlist", "hired"}

PipelineNext ==
    \E c \in PipelineCandidateIds, to_stage \in RequestedStages,
       o \in Organizations, failure \in MoveFailures :
        move_candidate_stage(c, to_stage, o, failure)

PipelineSpec == InitPipeline /\ [][PipelineNext]_vars

-----------------------------------------------------------------------------
(* Job routes: create, publish, update, delete, public page (api/routes/jobs.py) *)

\* core/database.py, JobStatus
JobStatus == {"draft", "published", "closed"}

PostIds == 1..MaxJobs

\* a new row of the jobs table: status=JobStatus.DRAFT (line 62), no
\* public_url yet
Post(id, organization_id) ==
    [id |-> id, organization_id |-> organization_id, status |-> "draft",
     public_url |-> None]

\* the statement at which the database or log_activity raises
JobFailures == {"none", "commit", "log_activity"}

JobRequest(op, job_id, organization_id) ==
    [op |-> op, job_id |-> job_id, organization_id |-> organization_id]

JobError(code, request) == [status |-> "error", code |-> code, request |-> request]

\* Depends(validate_job_access): 0 when the job is the caller's, else the
\* status code of the HTTPException
validate_job_access(job_id, organization_id) ==
    IF job_id \notin DOMAIN posts THEN 404
    ELSE IF posts[job_id].organization_id # organization_id THEN 403
    ELSE 0

\* lines 30-87
create_job(organization_id, failure) ==
    /\ Cardinality(DOMAIN posts) < MaxJobs
    /\ \E request \in {JobRequest("create_job", 0, organization_id)},
          id \in {Cardinality(DOMAIN posts) + 1} :
       IF failure = "commit"
       THEN /\ reply' = JobError(500, request)
            /\ UNCHANGED posts
       ELSE /\ posts' = (id :> Post(id, organization_id)) @@ posts
            /\ reply' = IF failure = "log_activity" THEN JobError(500, request)
                        ELSE [status |-> "ok", code |-> 200, request |-> request,
                              job |-> posts'[id]]
    /\ UNCHANGED <<scoring, cands, activity_logs, interviews>>

\* lines 192-241.  A job that is not DRAFT is refused (line 202).  For a
\* DRAFT job line 210 reads settings.NEXT_PUBLIC_APP_URL, which Settings
\* does not define, and line 214 slices job.id, a uuid.UUID: the handler
\* raises before its commit, rolls back and answers 500.
publish_job(job_id, organization_id) ==
    /\ \E request \in {JobRequest("publish_job", job_id, organization_id)},
          access \in {validate_job_access(job_id, organization_id)} :
           reply' = IF access # 0 THEN JobError(access, request)
                    ELSE IF posts[job_id].status # "draft" THEN JobError(400, request)
                    ELSE JobError(500, request)
    /\ UNCHANGED <<scoring, cands, activity_logs, interviews, posts>>

\* lines 243-287: the status is not among the fields an update writes
update_job(job_id, organization_id, failure) ==
    /\ \E request \in {JobRequest("update_job", job_id, organization_id)},
          access \in {validate_job_access(job_id, organization_id)} :
           reply' = IF access # 0 THEN JobError(access, request)
                    ELSE IF failure # "none" THEN JobError(500, request)
                    ELSE [status |-> "ok", code |-> 200, request |-> request,
                          job |-> posts[job_id]]
    /\ UNCHANGED <<scoring, cands, activity_logs, interviews, posts>>

\* lines 289-319: the soft delete is committed (line 300) before log_activity
delete_job(job_id, organization_id, failure) ==
    /\ \E request \in {JobRequest("delete_job", job_id, organization_id)},
          access \in {validate_job_access(job_id, organization_id)} :
       IF access # 0
       THEN /\ reply' = JobError(access, request)
            /\ UNCHANGED posts
       ELSE IF failure = "commit"
       THEN /\ reply' = JobError(500, request)
            /\ UNCHANGED posts
       ELSE /\ posts' = [posts EXCEPT ![job_id].status = "closed"]
            /\ reply' = IF failure = "log_activity" THEN JobError(500, request)
                        ELSE [status |-> "ok", code |-> 200, request |-> request,
                              job |-> posts'[job_id]]
    /\ UNCHANGED <<scoring, cands, activity_logs, interviews>>

\* lines 321-367: no authentication; the query selects PUBLISHED jobs only
get_public_job(job_id) ==
    /\ \E request \in {JobRequest("get_public_job", job_id, "")} :
           reply' = IF job_id \in DOMAIN posts /\ posts[job_id].status = "published"
                    THEN [status |-> "ok", code |-> 200, request |-> request,
                          job |-> posts[job_id]]
                    ELSE JobError(404, request)
    /\ UNCHANGED <<scoring, cands, activity_logs, interviews, posts>>

InitJobs ==
    /\ jobs = ("J1" :> FullJob)
    /\ candidates = ("C1" :> FullCandidate("C1"))
    /\ InitService
    /\ InitRoutes

JobsNext ==
    \/ \E o \in Organizations, failure \in JobFailures : create_job(o, failure)
    \/ \E j \in PostIds, o \in Organizations : publish_job(j, o)
    \/ \E j \in PostIds, o \in Organizations, failure \in JobFailures :
           update_job(j, o, failure)
    \/ \E j \in PostIds, o \in Organizations, failure \in JobFailures :
           delete_job(j, o, failure)
    \/ \E j \in PostIds : get_public_job(j)

JobsSpec == InitJobs /\ [][JobsNext]_vars

-----------------------------------------------------------------------------
(* Role health report (api/routes/reports.py) *)

\* stage_counts.get(stage, 0): the dict has a key for the stages that have
\* candidates only (GROUP BY, line 40)
CountOf(stage_counts, stage) ==
    IF stage \in DOMAIN stage_counts THEN stage_counts[stage] ELSE 0

RECURSIVE SumCounts(_, _)
SumCounts(stage_counts, stages) ==
    IF stages = {} THEN 0
    ELSE LET stage == CHOOSE st \in stages : TRUE
         IN  stage_counts[stage] + SumCounts(stage_counts, stages \ {stage})

\* _get_recent_interviews_count, line 238: the mock value
get_recent_interviews_count == 5

\* lines 240-258, in exact arithmetic
calculate_health_index(total_candidates, qualified_candidates, new_apps_24h, interviews_7d) ==
    IF total_candidates = 0 THEN Zero
    ELSE The({RMin(Rat(100, 1), RAdd(base_score, Rat(activity_bonus, 1))) :
                 base_score \in {Rat(60 * qualified_candidates, total_candidates)},
                 activity_bonus \in {IF new_apps_24h * 2 + interviews_7d * 3 < 40
                                     THEN new_apps_24h * 2 + interviews_7d * 3
                                     ELSE 40}})

sLowHealth == "Low pipeline health - consider sourcing more candidates"
sLowVolume == "Low application volume in last 24 hours"
sBacklog == "Backlog in screening stage"
sLowPool == "Low qualified candidate pool"

\* lines 260-280
identify_risks(stage_counts, new_apps_24h, health_index) ==
    (IF RLess(health_index, Rat(50, 1)) THEN <<sLowHealth>> ELSE <<>>)
    \o (IF new_apps_24h < 2 THEN <<sLowVolume>> ELSE <<>>)
    \o (IF CountOf(stage_counts, "new") > CountOf(stage_counts, "screening") * 2
        THEN <<sBacklog>> ELSE <<>>)
    \o (IF CountOf(stage_counts, "shortlist") < 3 THEN <<sLowPool>> ELSE <<>>)

\* `text in risks` for the list risks: some element equals the text
InList(text, list) == \E i \in 1..Len(list) : list[i] = text

\* lines 282-300
generate_next_actions(stage_counts, risks) ==
    (IF InList("Low pipeline health", risks)
     THEN <<"Start sourcing campaign for this role">> ELSE <<>>)
    \o (IF InList("Backlog in screening", risks)
        THEN <<"Review and screen pending candidates">> ELSE <<>>)
    \o (IF InList("Low qualified candidate pool", risks)
        THEN <<"Adjust screening criteria or expand search">> ELSE <<>>)
    \o <<"Review outreach performance and optimize">>

\* lines 46-78: the RoleHealthResponse for the counts of the two queries
RoleHealthResponse(stage_counts, new_apps_24h) ==
    The({[health_index |-> health_index,
          qualified_on_hand |-> qualified_candidates,
          new_apps_24h |-> new_apps_24h,
          interviews_7d |-> get_recent_interviews_count,
          stage_distribution |-> stage_counts,
          risks |-> risks,
          next_actions |-> generate_next_actions(stage_counts, risks)] :
            total_candidates \in {SumCounts(stage_counts, DOMAIN stage_counts)},
            qualified_candidates \in {CountOf(stage_counts, "shortlist")
                                      + CountOf(stage_counts, "interview")},
            health_index \in {calculate_health_index(
                                 SumCounts(stage_counts, DOMAIN stage_counts),
                                 CountOf(stage_counts, "shortlist")
                                 + CountOf(stage_counts, "interview"),
                                 new_apps_24h, get_recent_interviews_count)},
            risks \in {identify_risks(stage_counts, new_apps_24h,
                           calculate_health_index(
                               SumCounts(stage_counts, DOMAIN stage_counts),
                               CountOf(stage_counts, "shortlist")
                               + CountOf(stage_counts, "interview"),
                               new_apps_24h, get_recent_interviews_count))}})

\* lines 34-43: the stage counts of the job's candidates in the organization
StageCounts(job_id, organization_id) ==
    LET rows(stage) == {c \in DOMAIN cands :
                           /\ cands[c].job_id = job_id
                           /\ cands[c].organization_id = organization_id
                           /\ cands[c].stage = stage}
        stages == {stage \in CandidateStage : rows(stage) # {}}
    IN  [stage \in stages |-> Cardinality(rows(stage))]

\* lines 22-84.  An access check that fails answers 404 or 403.  Otherwise
\* the stage query runs and _get_recent_candidates_count (line 51) evaluates
\* uuid.UUID(job_id) at line 228: reports.py does not import uuid, the call
\* raises NameError and the handler answers 500 (line 80).
get_role_health(job_id, organization_id) ==
    /\ \E request \in {[op |-> "get_role_health", job_id |-> job_id,
                        organization_id |-> organization_id]} :
           reply' = IF validate_job_access(job_id, organization_id) # 0
                    THEN JobError(validate_job_access(job_id, organization_id), request)
                    ELSE JobError(500, request)
    /\ UNCHANGED <<scoring, cands, activity_logs, posts, interviews>>

\* _get_recent_candidates_count (lines 222-233) without the NameError: the
\* job's candidates created within the last `days` days; utcnow() is 0 here
get_recent_candidates_count(job_id, days) ==
    Cardinality({c \in DOMAIN cands :
                    cands[c].job_id = job_id /\ cands[c].created_at >= 0 - days})

\* The computation of lines 46-78 on the counts the two queries give for the
\* job, as get_role_health returns it once line 51 does not raise.
role_health_response(job_id, organization_id) ==
    /\ validate_job_access(job_id, organization_id) = 0
    /\ \E stage_counts \in {StageCounts(job_id, organization_id)},
          new_apps_24h \in {get_recent_candidates_count(job_id, 1)} :
           reply' = [status |-> "ok", code |-> 200,
                     request |-> [op |-> "role_health_response", job_id |-> job_id,
                                  organization_id |-> organization_id],
                     report |-> RoleHealthResponse(stage_counts, new_apps_24h)]
    /\ UNCHANGED <<scoring, cands, activity_logs, posts, interviews>>

\* the stages the health index and the risks read
CountedStages == {"new", "screening", "shortlist", "interview"}

\* every dict of counts of up to MaxCount candidates per stage
StageCountsOptions ==
    UNION {[stages -> 1..MaxCount] : stages \in SUBSET CountedStages}

\* a candidates table of job 1 with the given counts; the candidates of the
\* stages in `recent` were added within the last 24 hours, the others two
\* days ago
HealthCandidates(stage_counts, recent) ==
    [c \in UNION {{<<stage, i>> : i \in 1..stage_counts[stage]} :
                     stage \in DOMAIN stage_counts} |->
        [PipelineCandidate(c, "O1", 1, IF c[1] \in recent THEN 0 ELSE -2)
            EXCEPT !.stage = c[1]]]

\* One job with any such table of candidates; among them the table of the
\* acceptance test: 5 candidates added within the last 24 hours, 2 of them
\* moved to shortlist.
InitHealth ==
    /\ jobs = ("J1" :> FullJob)
    /\ candidates = ("C1" :> FullCandidate("C1"))
    /\ InitService
    /\ \E stage_counts \in StageCountsOptions :
       \E recent \in SUBSET DOMAIN stage_counts :
           cands = HealthCandidates(stage_counts, recent)
    /\ activity_logs = <<>>
    /\ posts = (1 :> Post(1, "O1"))
    /\ interviews = {}
    /\ reply = NoResponse

HealthNext ==
    \/ \E j \in PostIds, o \in Organizations : get_role_health(j, o)
    \/ \E j \in PostIds, o \in Organizations : role_health_response(j, o)

HealthSpec == InitHealth /\ [][HealthNext]_vars

-----------------------------------------------------------------------------
(* The interview service (apps/backend/src/services/interview_service.py). *)
(* Times are minutes from a fixed instant.  The id of a stored interview,  *)
(* a fresh uuid, and the fields the conflict check never reads (type,      *)
(* meeting_link, notes, candidate_id) are left out of the rows.            *)

InterviewerIds == {"U1", "U2"}

\* schemas.py, InterviewCreate: the fields schedule_interview reads
InterviewCreate(application_id, interviewer_id, scheduled_at, duration_minutes) ==
    [application_id |-> application_id, interviewer_id |-> interviewer_id,
     scheduled_at |-> scheduled_at, duration_minutes |-> duration_minutes]

\* models.py, Interview: the row schedule_interview stores (lines 47-56)
Interview(interview) ==
    [application_id |-> interview.application_id,
     interviewer_id |-> interview.interviewer_id,
     scheduled_at |-> interview.scheduled_at,
     duration_minutes |-> interview.duration_minutes]

\* lines 70-85: the stored interviews of the interviewer that start before
\* the end of the new one and later than the new start minus the NEW
\* interview's duration
check_scheduling_conflicts(interviewer_id, scheduled_at, duration_minutes) ==
    \E end_time \in {scheduled_at + duration_minutes} :
        Cardinality({i \in interviews :
                        /\ i.interviewer_id = interviewer_id
                        /\ i.scheduled_at < end_time
                        /\ i.scheduled_at > scheduled_at - duration_minutes}) > 0

ScheduleError(message, interview, organization_id) ==
    [status |-> "error", error |-> message,
     request |-> [op |-> "schedule_interview", interview |-> interview,
                  organization_id |-> organization_id]]

\* lines 22-68
schedule_interview(interview, organization_id) ==
    /\ Cardinality(interviews) < MaxInterviews
    /\ \E application \in {{a \in {apps[k] : k \in DOMAIN apps} :
                              /\ a.id = interview.application_id
                              /\ a.organization_id = organization_id}} :
           IF application = {}
           THEN /\ reply' = ScheduleError(
                                "Application not found or does not belong to organization",
                                interview, organization_id)
                /\ UNCHANGED interviews
           ELSE IF check_scheduling_conflicts(interview.interviewer_id,
                                              interview.scheduled_at,
                                              interview.duration_minutes)
           THEN /\ reply' = ScheduleError("Scheduling conflict detected",
                                          interview, organization_id)
                /\ UNCHANGED interviews
           ELSE /\ interviews' = interviews \cup {Interview(interview)}
                /\ reply' = [status |-> "ok", interview |-> Interview(interview),
                             request |-> [op |-> "schedule_interview",
                                          interview |-> interview,
                                          organization_id |-> organization_id]]
    /\ UNCHANGED <<scoring, cands, activity_logs, posts>>

\* one application, of organization O1, and no interview yet
InitInterviews ==
    /\ jobs = ("J1" :> FullJob)
    /\ candidates = ("C1" :> FullCandidate("C1"))
    /\ apps = (<<"J1", "C1">> :> ApplicationOf([k \in {} |-> None], "J1", "C1", "O1"))
    /\ pending = None
    /\ response = NoResponse
    /\ clock = 0
    /\ memo = NoResponse
    /\ calls = [w \in WorkerIds |-> Idle]
    /\ InitRoutes

InterviewNext ==
    \E interviewer_id \in InterviewerIds, scheduled_at \in 0..MaxTime,
       duration_minutes \in 1..MaxDuration, organization_id \in Organizations :
        schedule_interview(InterviewCreate(1, interviewer_id, scheduled_at,
                                           duration_minutes),
                           organization_id)

InterviewSpec == InitInterviews /\ [][InterviewNext]_vars

-----------------------------------------------------------------------------
(* Properties of calculate_fit_score and get_top_candidates *)

\* the most recent request was a calculate_fit_score that returned a result
Scored == response.status = "ok" /\ response.request.op = "calculate_fit_score"
R == response.result
ScoredJob == jobs[response.request.job_id]
ScoredCandidate == candidates[response.request.candidate_id]
Answer == response.request.answer
StoredApplication == apps[<<R.job_id, R.candidate_id>>]

\* 0.35*skill + 0.25*experience + 0.15*education + 0.10*location + 0.15*culture
WeightedSum(skill, experience, education, location, culture) ==
    RAdd(RAdd(RAdd(RAdd(RMul(Rat(35, 100), skill), RMul(Rat(25, 100), experience)),
                   RMul(Rat(15, 100), education)),
              RMul(Rat(10, 100), location)),
         RMul(Rat(15, 100), culture))

\* C1: each of the five sub-scores and the overall score of every result lies
\* in [0,1], whatever the records hold and whatever the service answers.
C1_ScoresInUnitInterval ==
    Scored =>
        /\ InUnit(R.skill_match)
        /\ InUnit(R.experience_match)
        /\ InUnit(R.education_match)
        /\ InUnit(R.location_match)
        /\ InUnit(R.culture_fit)
        /\ InUnit(R.overall_score)

\* C2: the overall score of a result is 0.35*skill + 0.25*experience +
\* 0.15*education + 0.10*location + 0.15*culture of the sub-scores of the same
\* result; the weights stored in the score details are these five, they sum
\* to 1, and the stored fit_score is the overall score.
C2_OverallIsWeightedSum ==
    Scored =>
        LET d == Val(StoredApplication.fit_score_details)
        IN  /\ R.overall_score = WeightedSum(R.skill_match, R.experience_match,
                                     R.education_match, R.location_match, R.culture_fit)
            /\ d.weights = [skill_match |-> Rat(35, 100), experience_match |-> Rat(25, 100),
                            education_match |-> Rat(15, 100), location_match |-> Rat(10, 100),
                            culture_fit |-> Rat(15, 100)]
            /\ RAdd(RAdd(RAdd(RAdd(d.weights.skill_match, d.weights.experience_match),
                              d.weights.education_match),
                         d.weights.location_match),
                    d.weights.culture_fit) = One
            /\ StoredApplication.fit_score = Some(R.overall_score)
            /\ <<d.skill_match, d.experience_match, d.education_match, d.location_match,
                 d.culture_fit>>
               = <<R.skill_match, R.experience_match, R.education_match, R.location_match,
                   R.culture_fit>>

\* a result with five different sub-scores: 1/2, 3/5, 1, 9/10 and 7/10
C2_Witness ==
    /\ Scored
    /\ <<R.skill_match, R.experience_match, R.education_match, R.location_match, R.culture_fit>>
       = <<Rat(1, 2), Rat(3, 5), One, Rat(9, 10), Rat(7, 10)>>
    /\ R.overall_score = Rat(67, 100)

\* The fields a sub-score reads are absent (None, a missing key, an empty list
\* or an empty text), stated on the records themselves.
HasKey(dict, key) == ~IsNone(dict) /\ key \in DOMAIN Val(dict)
KeyAbsent(dict, key) == ~HasKey(dict, key) \/ IsNone(Val(dict)[key])
EmptyList(field) == IsNone(field) \/ Val(field) = <<>>

SkillInputsAbsent(job, candidate) ==
    \/ EmptyList(candidate.skills)
    \/ IF HasKey(job.parsed_requirements, "required_skills")
       THEN EmptyList(Val(job.parsed_requirements)["required_skills"])
       ELSE EmptyList(job.requirements)

ExperienceInputsAbsent(job, candidate) ==
    \/ IsNone(candidate.experience_years)
    \/ KeyAbsent(job.parsed_requirements, "experience_required")

EducationInputsAbsent(job, candidate) ==
    \/ KeyAbsent(job.parsed_requirements, "education_required")
    \/ KeyAbsent(candidate.resume_parsed, "education")
    \/ EmptyList(Val(candidate.resume_parsed)["education"])

LocationInputsAbsent(job, candidate) ==
    IsNone(job.location) \/ IsNone(candidate.location)

CultureInputsAbsent(job, candidate) ==
    \/ job.description = <<>>
    \/ KeyAbsent(candidate.resume_parsed, "summary")
    \/ Val(Val(candidate.resume_parsed)["summary"]) = <<>>

\* C3: for an existing job and candidate a call returns a complete result
\* whatever fields are absent, and a sub-score whose inputs are absent is its
\* default: 0.0 for skill match, 0.5 for the other four.
C3_AbsentFieldsGiveDefaults ==
    /\ response.status # "error"
    /\ Scored =>
        /\ DOMAIN R = {"application_id", "job_id", "candidate_id", "overall_score",
                       "skill_match", "experience_match", "education_match",
                       "location_match", "culture_fit", "breakdown", "recommendations",
                       "generated_at"}
        /\ Len(R.recommendations) >= 1
        /\ SkillInputsAbsent(ScoredJob, ScoredCandidate) => R.skill_match = Zero
        /\ ExperienceInputsAbsent(ScoredJob, ScoredCandidate) => R.experience_match = Half
        /\ EducationInputsAbsent(ScoredJob, ScoredCandidate) => R.education_match = Half
        /\ LocationInputsAbsent(ScoredJob, ScoredCandidate) => R.location_match = Half
        /\ CultureInputsAbsent(ScoredJob, ScoredCandidate) => R.culture_fit = Half

\* a job and a candidate with nothing but their ids: every sub-score is its
\* default and the overall score is 0.25*0.5 + 0.15*0.5 + 0.10*0.5 + 0.15*0.5
C3_Witness ==
    /\ Scored
    /\ IsNone(ScoredJob.parsed_requirements) /\ IsNone(ScoredJob.requirements)
    /\ IsNone(ScoredJob.location) /\ ScoredJob.description = <<>>
    /\ IsNone(ScoredCandidate.skills) /\ IsNone(ScoredCandidate.experience_years)
    /\ IsNone(ScoredCandidate.resume_parsed) /\ IsNone(ScoredCandidate.location)
    /\ R.skill_match = Zero
    /\ R.overall_score = Rat(13, 40)

\* two calls with the same job, candidate, organization and service answer:
\* the response a client kept, and the latest one
SameCallAgain ==
    /\ Scored
    /\ memo.status = "ok"
    /\ memo.request = response.request

\* C4 (as claimed): two calls with identical records and an identical
\* culture-fit answer return results that are identical in every field,
\* whatever calls happened in between.
C4_IdenticalResults == SameCallAgain => memo.result = R

\* C4 (amended): the two results are identical in every field except
\* generated_at, the time of the call.
C4_IdenticalExceptGeneratedAt ==
    SameCallAgain => [memo.result EXCEPT !.generated_at = R.generated_at] = R

\* the same call made again at a later time, after the other candidate was scored
C4_Witness ==
    /\ SameCallAgain
    /\ memo.result.generated_at < R.generated_at
    /\ Cardinality(DOMAIN apps) = 2

\* C5 (as claimed): a stored result never changes; scoring a pair again
\* leaves the pair's stored score and score details as they were.
C5_StoredResultImmutable ==
    [][\A k \in DOMAIN apps : k \in DOMAIN apps' /\ apps'[k] = apps[k]]_vars

\* C5 (amended): a pair has one Application; scoring the pair again overwrites
\* the fit_score and fit_score_details of that Application in place with the
\* new result (same id, no new row), and no other pair's Application changes.
C5_RescoreOverwritesInPlace ==
    [][apps' # apps =>
          /\ Scored'
          /\ DOMAIN apps' = DOMAIN apps \cup {<<R'.job_id, R'.candidate_id>>}
          /\ \A k \in DOMAIN apps :
                 /\ apps'[k].id = apps[k].id
                 /\ k # <<R'.job_id, R'.candidate_id>> => apps'[k] = apps[k]
          /\ \A k, q \in DOMAIN apps' : apps'[k].id = apps'[q].id => k = q
          /\ StoredApplication'.id = R'.application_id
          /\ StoredApplication'.fit_score = Some(R'.overall_score)
          /\ LET d == Val(StoredApplication'.fit_score_details)
             IN  <<d.skill_match, d.experience_match, d.education_match,
                   d.location_match, d.culture_fit>>
                 = <<R'.skill_match, R'.experience_match, R'.education_match,
                     R'.location_match, R'.culture_fit>>]_vars

\* the first Application was scored again after the second one was created,
\* with another culture fit than the 0.5 it can get without an answer
C5_Witness ==
    /\ Scored
    /\ Cardinality(DOMAIN apps) = 2
    /\ R.application_id = 1
    /\ R.culture_fit = One
    /\ StoredApplication.fit_score = Some(R.overall_score)

\* the order of the candidate identifiers
CandidateRank == "C1" :> 1 @@ "C2" :> 2

TopReturned == response.status = "ok" /\ response.request.op = "get_top_candidates"

\* C6: get_top_candidates returns at most `limit` entries, by score
\* descending, entries with equal scores by candidate identifier ascending.
C6_TopCandidatesOrdered ==
    TopReturned =>
        /\ Len(R) <= response.request.limit
        /\ \A i, k \in 1..Len(R) :
               i < k => \/ RLess(R[k].fit_score, R[i].fit_score)
                        \/ /\ R[k].fit_score = R[i].fit_score
                           /\ CandidateRank[R[i].candidate] < CandidateRank[R[k].candidate]

\* texts the service may return
NotANumber == <<"h","i","g","h">>
AboveOne == <<" ","1",".","5","\n">>
BelowZero == <<"-","0",".","5">>

C8_OutOfRangeGivesHalf ==
    (Scored /\ Answer.content \in {Some(AboveOne), Some(BelowZero)}) => R.culture_fit = Half

\* C8 (amended): a number outside [0,1] from the service is clamped to the
\* nearest bound: above 1 gives 1.0, below 0 gives 0.0.
C8_OutOfRangeIsClamped ==
    Scored =>
        /\ Answer.content = Some(AboveOne) => R.culture_fit = One
        /\ Answer.content = Some(BelowZero) => R.culture_fit = Zero

C8_Witness ==
    /\ Scored
    /\ Answer.content = Some(BelowZero)
    /\ R.culture_fit = Zero

\* C9: a call that waits for the service's answer completes even if the answer
\* never comes: it returns a full result whose culture-fit sub-score is 0.5.
C9_TimeoutStillCompletes ==
    /\ (~IsNone(pending)) ~> (IsNone(pending) /\ Scored)
    /\ [][(~IsNone(pending) /\ IsNone(pending')) =>
              (Scored' /\ R'.job_id = Val(pending).job.id
                       /\ R'.candidate_id = Val(pending).candidate.id)]_vars
    /\ []((Scored /\ Answer = TimedOut) =>
              /\ R.culture_fit = Half
              /\ R.overall_score = WeightedSum(R.skill_match, R.experience_match,
                                       R.education_match, R.location_match, Half)
              /\ Len(R.recommendations) >= 1)

C9_Witness ==
    /\ Scored
    /\ Answer = TimedOut
    /\ R.culture_fit = Half
    /\ IsNone(pending)

\* the candidate's years or the job's required years are negative
NegativeYears(job, candidate) ==
    \/ ~IsNone(candidate.experience_years) /\ Val(candidate.experience_years) < 0
    \/ /\ HasKey(job.parsed_requirements, "experience_required")
       /\ ~IsNone(Val(job.parsed_requirements)["experience_required"])
       /\ Val(Val(job.parsed_requirements)["experience_required"]) < 0

\* C10: negative experience years, of the candidate or required by the job,
\* count as absent: the experience sub-score is the neutral 0.5.
C10_NegativeYearsAreAbsent ==
    (Scored /\ NegativeYears(ScoredJob, ScoredCandidate)) => R.experience_match = Half

-----------------------------------------------------------------------------
(* Properties of the sub-scores *)

\* the lists the skill sub-score of the scored pair was computed from
RequiredSkills == Val(Val(ScoredJob.parsed_requirements)["required_skills"])
OfferedSkills == Val(ScoredCandidate.skills)

\* some candidate skill equals the required skill / some candidate skill that
\* is not equal contains it or is contained in it (both case-insensitive)
ExactHit(skill, offered) ==
    \E i \in 1..Len(offered) : Lower(offered[i]) = Lower(skill)
PartialHit(skill, offered) ==
    \E i \in 1..Len(offered) :
        \E a \in {Lower(skill)}, b \in {Lower(offered[i])} :
            a # b /\ (Contains(a, b) \/ Contains(b, a))

\* the sum of the contributions in fifths (1.0 = 5, 0.8 = 4), counting a
\* required skill that has both kinds of match as 0.8 (Low) or as 1.0 (High)
RECURSIVE CreditLow(_, _)
CreditLow(required, offered) ==
    IF required = <<>> THEN 0
    ELSE (IF PartialHit(Head(required), offered) THEN 4
          ELSE IF ExactHit(Head(required), offered) THEN 5 ELSE 0)
         + CreditLow(Tail(required), offered)

RECURSIVE CreditHigh(_, _)
CreditHigh(required, offered) ==
    IF required = <<>> THEN 0
    ELSE (IF ExactHit(Head(required), offered) THEN 5
          ELSE IF PartialHit(Head(required), offered) THEN 4 ELSE 0)
         + CreditHigh(Tail(required), offered)

C12_ExactMatchPreferred ==
    (Scored /\ ScoredJob \in SkillJobs /\ RequiredSkills # <<>>
       /\ \A i \in 1..Len(RequiredSkills) : ExactHit(RequiredSkills[i], OfferedSkills))
        => R.skill_match = One

\* the years of the scored pair, when both are known
RequiredYearsKnown == Val(Val(ScoredJob.parsed_requirements)["experience_required"])
CandidateYearsKnown == Val(ScoredCandidate.experience_years)

\* C13: the experience sub-score is 0.5 when the required or the candidate's
\* years are absent; for positive years it is 1.0 when the candidate's years
\* are at least the required years and candidate years / required years
\* otherwise.  Required 10 against 5 gives 0.5.
C13_ExperienceMatchPositiveYears ==
    (Scored /\ ScoredJob \in ExperienceJobs) =>
        /\ ExperienceInputsAbsent(ScoredJob, ScoredCandidate) => R.experience_match = Half
        /\ (~ExperienceInputsAbsent(ScoredJob, ScoredCandidate)
              /\ RequiredYearsKnown > 0 /\ CandidateYearsKnown > 0) =>
              /\ CandidateYearsKnown >= RequiredYearsKnown => R.experience_match = One
              /\ CandidateYearsKnown < RequiredYearsKnown =>
                     R.experience_match = Rat(CandidateYearsKnown, RequiredYearsKnown)
              /\ (RequiredYearsKnown = 10 /\ CandidateYearsKnown = 5) =>
                     R.experience_match = Rat(5, 10)
              /\ (RequiredYearsKnown = 5 /\ CandidateYearsKnown = 5) =>
                     R.experience_match = One

\* 3 years against 10 required: 0.3
C13_Witness ==
    /\ Scored
    /\ ScoredJob \in ExperienceJobs
    /\ ~ExperienceInputsAbsent(ScoredJob, ScoredCandidate)
    /\ RequiredYearsKnown = 10
    /\ CandidateYearsKnown = 3
    /\ R.experience_match = Rat(3, 10)

\* C14: zero years are known years: 0 years against a requirement above 0
\* gives the experience sub-score 0.0, and a requirement of 0 years gives
\* every candidate with known years 1.0.
C14_ZeroYearsArePresent ==
    (Scored /\ ScoredJob \in ExperienceJobs
       /\ ~ExperienceInputsAbsent(ScoredJob, ScoredCandidate)) =>
        /\ (CandidateYearsKnown = 0 /\ RequiredYearsKnown > 0) => R.experience_match = Zero
        /\ RequiredYearsKnown = 0 => R.experience_match = One

\* the education texts of the scored pair, when both are there
RequiredEducationText == Val(Val(ScoredJob.parsed_requirements)["education_required"])
CandidateEducationText == Val(Val(ScoredCandidate.resume_parsed)["education"])[1]

\* the levels of the texts that name one degree or none
PlainLevel ==
    sHighSchool :> 1 @@ sBachelor :> 3 @@ sMasters :> 4 @@ sMBA :> 4 @@ sPhD :> 5
    @@ sDiploma :> 0 @@ sCertificate :> 0

\* 1.0 when the candidate's level is at least the required one, else the ratio
LevelScore(candidate_level, required_level) ==
    IF candidate_level >= required_level THEN One
    ELSE Rat(candidate_level, required_level)

\* C15: the education sub-score is 0.5 when either education text is absent;
\* otherwise it is 1.0 when the candidate's level is at least the required
\* level and candidate level / required level otherwise (a text that names
\* no degree has level 0), so a required text that names no degree gives 1.0
\* for every candidate text.
C15_EducationMatchByLevel ==
    (Scored /\ ScoredJob \in EducationJobs) =>
        /\ EducationInputsAbsent(ScoredJob, ScoredCandidate) => R.education_match = Half
        /\ ~EducationInputsAbsent(ScoredJob, ScoredCandidate) =>
              /\ (RequiredEducationText \in DOMAIN PlainLevel
                    /\ CandidateEducationText \in DOMAIN PlainLevel) =>
                     R.education_match = LevelScore(PlainLevel[CandidateEducationText],
                                                    PlainLevel[RequiredEducationText])
              /\ RequiredEducationText = sDiploma => R.education_match = One

\* a high school education against a required PhD: 1/5
C15_Witness ==
    /\ Scored
    /\ ScoredJob \in EducationJobs
    /\ ~EducationInputsAbsent(ScoredJob, ScoredCandidate)
    /\ RequiredEducationText = sPhD
    /\ CandidateEducationText = sHighSchool
    /\ R.education_match = Rat(1, 5)

\* the vocabulary in the order the claim gives it
VocabularyAsClaimed ==
    << <<  <<"h","i","g","h"," ","s","c","h","o","o","l">>, 1 >>,
       <<  <<"a","s","s","o","c","i","a","t","e">>, 2 >>,
       <<  <<"b","a","c","h","e","l","o","r">>, 3 >>,
       <<  <<"m","b","a">>, 4 >>,
       <<  <<"m","a","s","t","e","r">>, 4 >>,
       <<  <<"p","h","d">>, 5 >> >>

\* the level of the first entry of VocabularyAsClaimed the text contains
FirstMatchLevel(text) ==
    LET hits == {i \in 1..Len(VocabularyAsClaimed) :
                    Contains(Lower(text), VocabularyAsClaimed[i][1])}
    IN  IF hits = {} THEN 0 ELSE VocabularyAsClaimed[SetMin(hits)][2]

\* C16: the level of an education text is that of the first entry of the
\* vocabulary (high school, associate, bachelor, mba, master, phd) it
\* contains, on either side, and the sub-score follows from these levels.
C16_FirstMatchWins ==
    (Scored /\ ScoredJob \in EducationJobs
       /\ ~EducationInputsAbsent(ScoredJob, ScoredCandidate)) =>
        R.education_match = LevelScore(FirstMatchLevel(CandidateEducationText),
                                       FirstMatchLevel(RequiredEducationText))

\* the locations of the scored pair, when both are there
JobLocation == Val(ScoredJob.location)
CandidateLocation == Val(ScoredCandidate.location)

\* the rules in the claimed order, on the trimmed, case-folded strings
LocationRule(a, b) ==
    IF a = b THEN One
    ELSE IF Contains(a, b) \/ Contains(b, a) THEN Rat(8, 10)
    ELSE IF Contains(a, <<"r","e","m","o","t","e">>)
            \/ Contains(b, <<"r","e","m","o","t","e">>) THEN Rat(9, 10)
    ELSE Rat(3, 10)

\* C17: the location sub-score is 0.5 when a location is missing; otherwise,
\* on the trimmed, case-folded strings: 1.0 when equal, else 0.8 when one
\* contains the other, else 0.9 when either contains "remote", else 0.3.
\* "Remote" against "San Francisco" is 0.9, against "remote" 1.0, against
\* "Remote - US" 0.8.
C17_LocationRulesInOrder ==
    (Scored /\ ScoredJob \in LocationJobs) =>
        /\ LocationInputsAbsent(ScoredJob, ScoredCandidate) => R.location_match = Half
        /\ ~LocationInputsAbsent(ScoredJob, ScoredCandidate) =>
              /\ R.location_match = LocationRule(Strip(Lower(JobLocation)),
                                                 Strip(Lower(CandidateLocation)))
              /\ (JobLocation = sRemote /\ CandidateLocation = sSanFrancisco)
                    => R.location_match = Rat(9, 10)
              /\ (JobLocation = sRemote /\ CandidateLocation = sRemoteLower)
                    => R.location_match = One
              /\ (JobLocation = sRemote /\ CandidateLocation = sRemoteUS)
                    => R.location_match = Rat(8, 10)
              /\ (JobLocation = sRemotePadded /\ CandidateLocation = sRemoteLower)
                    => R.location_match = One
              /\ (JobLocation = sNYC /\ CandidateLocation = sBoston)
                    => R.location_match = Rat(3, 10)

C17_Witness ==
    /\ Scored
    /\ ScoredJob \in LocationJobs
    /\ ~LocationInputsAbsent(ScoredJob, ScoredCandidate)
    /\ JobLocation = sRemote
    /\ CandidateLocation = sRemoteUS
    /\ R.location_match = Rat(8, 10)

\* the end-to-end scenario: the job asks for [Python, AWS], 5 years, Bachelor,
\* Remote; the candidate has [python, Docker], 3 years, Master's degree,
\* Remote and no summary
EndToEndScenario ==
    /\ Scored
    /\ RequiredSkills = <<sPython, sAWS>>
    /\ RequiredYearsKnown = 5
    /\ RequiredEducationText = sBachelor
    /\ JobLocation = sRemote
    /\ OfferedSkills = <<sPythonLower, sDocker>>
    /\ CandidateYearsKnown = 3
    /\ CandidateEducationText = sMasters
    /\ CandidateLocation = sRemote
    /\ CultureInputsAbsent(ScoredJob, ScoredCandidate)

\* C18: in the end-to-end scenario the sub-scores are skill 0.5, experience
\* 0.6, education 1.0, location 1.0, culture 0.5 and the overall score is
\* 0.5*0.35 + 0.6*0.25 + 1.0*0.15 + 1.0*0.10 + 0.5*0.15.
C18_EndToEndScores ==
    EndToEndScenario =>
        /\ R.skill_match = Rat(5, 10)
        /\ R.experience_match = Rat(6, 10)
        /\ R.education_match = One
        /\ R.location_match = One
        /\ R.culture_fit = Rat(5, 10)
        /\ R.overall_score = WeightedSum(Rat(5, 10), Rat(6, 10), One, One, Rat(5, 10))

C18_Witness ==
    /\ EndToEndScenario
    /\ Answer = NotAsked
    /\ R.overall_score = Rat(65, 100)

-----------------------------------------------------------------------------
(* Properties of concurrent calls and of the frame of a call *)

\* the five scores calculate_fit_score gives when it serves the request alone
\* and the service gives it the same answer
ScoresAlone(request) ==
    LET job == jobs[request.job_id]
        candidate == candidates[request.candidate_id]
    IN  AllScores(LocalScores(job, candidate),
                  IF request.answer \in {NotAsked, TimedOut} THEN Half
                  ELSE CultureFromAnswer(request.answer))

\* a request a call alone answers with a result
Answerable(request) ==
    /\ JobFound(request.job_id, request.organization_id)
    /\ CandidateFound(request.candidate_id, request.organization_id)

\* the result of worker w's finished call is that of the call alone
ResultAsAlone(w) ==
    LET request == calls[w].result.request
        result == calls[w].result.result
    IN  IF Answerable(request)
        THEN /\ calls[w].stage = "done"
             /\ calls[w].result.status = "ok"
             /\ \E scores \in {ScoresAlone(request)} :
                    /\ result.skill_match = scores.skill_match
                    /\ result.experience_match = scores.experience_match
                    /\ result.education_match = scores.education_match
                    /\ result.location_match = scores.location_match
                    /\ result.culture_fit = scores.culture_fit
                    /\ result.overall_score = OverallScore(scores)
        ELSE /\ calls[w].stage = "failed"
             /\ calls[w].result.status = "error"
             /\ result = "Job or candidate not found"

\* worker w commits in this step
Commits(w) == calls[w].stage = "queried" /\ calls'[w].stage = "done"

\* the Applications this step creates or modifies
Written == {k \in DOMAIN apps' : k \notin DOMAIN apps \/ apps'[k] # apps[k]}

\* the row of pair k after the step holds the scores worker w returns
StoresResultOf(w, k) ==
    LET result == calls'[w].result.result
        details == Val(apps'[k].fit_score_details)
    IN  /\ apps'[k].id = result.application_id
        /\ apps'[k].fit_score = Some(result.overall_score)
        /\ details.skill_match = result.skill_match
        /\ details.experience_match = result.experience_match
        /\ details.education_match = result.education_match
        /\ details.location_match = result.location_match
        /\ details.culture_fit = result.culture_fit

\* C19: in every interleaving of scoring calls for different (job, candidate)
\* pairs, every call ends as it does alone: with the sub-scores and overall
\* score of a sequential run for the same answer of the service, or with "Job
\* or candidate not found" when the records are not there; and a step writes
\* only the Application of the pair of the call that commits, with the scores
\* that call returns.
C19_DistinctPairsParallelSafe ==
    /\ [](\A w \in WorkerIds : calls[w].stage \in {"done", "failed"} => ResultAsAlone(w))
    /\ [][/\ DOMAIN apps \subseteq DOMAIN apps'
          /\ \A w \in WorkerIds : Commits(w) => StoresResultOf(w, CallPair(w))
          /\ \A k \in Written :
                 \E w \in WorkerIds :
                     Commits(w) /\ CallPair(w) = k /\ StoresResultOf(w, k)]_vars

\* both workers have scored, each its own pair, and the two rows hold
\* different scores
C19_Witness ==
    /\ \A w \in WorkerIds : calls[w].stage = "done"
    /\ calls["w1"].result.request.candidate_id # calls["w2"].result.request.candidate_id
    /\ Cardinality(DOMAIN apps) = 2
    /\ \A w \in WorkerIds :
           apps[<<calls[w].result.request.job_id, calls[w].result.request.candidate_id>>].fit_score
               = Some(calls[w].result.result.overall_score)
    /\ calls["w1"].result.result.overall_score # calls["w2"].result.result.overall_score

\* the pair of the calculate_fit_score call that returns in this step
ReturnsScore == response'.status = "ok" /\ response'.request.op = "calculate_fit_score"
ReturnedPair == <<response'.result.job_id, response'.result.candidate_id>>

\* C20: no step of a scoring call changes a Job or a Candidate record, no
\* Application disappears, and the only Application a call creates or
\* modifies is the one of the (job, candidate) pair it scores.
C20_CallDoesNotMutateInputs ==
    [][/\ jobs' = jobs
       /\ candidates' = candidates
       /\ DOMAIN apps \subseteq DOMAIN apps'
       /\ \A k \in Written : ReturnsScore /\ k = ReturnedPair]_vars

\* a call has rescored one pair while the Application of another candidate
\* for the same job is there with another score
C20_Witness ==
    /\ Scored
    /\ \E k \in DOMAIN apps :
           /\ k # <<R.job_id, R.candidate_id>>
           /\ k[1] = R.job_id
           /\ apps[k].fit_score # StoredApplication.fit_score
    /\ Val(StoredApplication.fit_score_details).calculated_at > 0

-----------------------------------------------------------------------------
(* Properties of the recommendations *)

\* the six rules of the recommendation list, by the entry each one appends
RuleOrder ==
    <<"develop_skills", "gain_experience", "research_culture",
      "excellent_skill_match", "strong_experience_match", "good_overall_match">>

RuleOf(kind) == CHOOSE i \in 1..Len(RuleOrder) : RuleOrder[i] = kind

Recommendations == R.recommendations

Recommends(kind) == \E i \in 1..Len(Recommendations) : Recommendations[i].kind = kind

\* every entry is the output of one of the six rules, and the entries stand in
\* the order of their rules, no rule twice
InRuleOrder ==
    /\ \A i \in 1..Len(Recommendations) :
           \E r \in 1..Len(RuleOrder) : RuleOrder[r] = Recommendations[i].kind
    /\ \A i, k \in 1..Len(Recommendations) :
           i < k => RuleOf(Recommendations[i].kind) < RuleOf(Recommendations[k].kind)

\* C21: the recommendation list holds outputs of the six rules only, in rule
\* order, each rule at most once, at most 5 entries and at least one; the
\* culture rule and the two affirmations are there exactly when their
\* threshold is passed, the skill-development and experience-gap entries only
\* when theirs is; and the generic "good overall match" entry is there exactly
\* when no entry of rules 1-5 is.
C21_RecommendationsFollowRules ==
    Scored =>
        /\ InRuleOrder
        /\ Len(Recommendations) \in 1..5
        /\ Recommends("develop_skills") => RLess(R.skill_match, Rat(7, 10))
        /\ Recommends("gain_experience") => RLess(R.experience_match, Rat(8, 10))
        /\ Recommends("research_culture") <=> RLess(R.culture_fit, Rat(6, 10))
        /\ Recommends("excellent_skill_match") <=> RLess(Rat(9, 10), R.skill_match)
        /\ Recommends("strong_experience_match") <=> RLess(Rat(9, 10), R.experience_match)
        /\ Recommends("good_overall_match") <=>
               \A r \in 1..5 : ~Recommends(RuleOrder[r])

\* the required skills the skill sub-score of the scored pair was computed
\* from (lines 118-123) and the candidate's skills (line 126)
ScoredRequiredSkills ==
    IF IsNone(JobSkills(ScoredJob)) THEN <<>> ELSE Val(JobSkills(ScoredJob))
ScoredOfferedSkills == CandidateSkills(ScoredCandidate)

\* the required skills no candidate skill equals, in required-list order
MissingRequired ==
    SelectSeq(ScoredRequiredSkills, LAMBDA skill : ~ExactHit(skill, ScoredOfferedSkills))

SkillEntries ==
    SelectSeq(Recommendations, LAMBDA rec : rec.kind = "develop_skills")

\* C22: when the skill sub-score is below 0.7 and some required skill the
\* sub-score was computed from has no case-insensitive equal among the
\* candidate's skills, the recommendations hold one skill-development entry
\* naming the first up to 3 missing skills in required-list order; when no
\* required skill is missing there is no such entry.
C22_SkillDevelopmentRule ==
    Scored =>
        /\ (RLess(R.skill_match, Rat(7, 10)) /\ MissingRequired # <<>>)
               => /\ Len(SkillEntries) = 1
                  /\ SkillEntries[1].skills = FirstN(MissingRequired, 3)
        /\ MissingRequired = <<>> => SkillEntries = <<>>

\* the scored job states its required years / the scored candidate's years
\* are on record
RequiredYearsOnRecord ==
    /\ HasKey(ScoredJob.parsed_requirements, "experience_required")
    /\ ~IsNone(Val(ScoredJob.parsed_requirements)["experience_required"])
CandidateYearsOnRecord == ~IsNone(ScoredCandidate.experience_years)

ExperienceEntries ==
    SelectSeq(Recommendations, LAMBDA rec : rec.kind = "gain_experience")

\* C23: the recommendations hold an experience-gap entry exactly when the
\* experience sub-score is below 0.8 and the candidate's known years are fewer
\* than the job's known required years; the entry states required - candidate;
\* a candidate whose years are unknown gets no such entry.
C23_ExperienceGapRule ==
    Scored =>
        /\ Len(ExperienceEntries) <= 1
        /\ ExperienceEntries # <<>> <=>
               /\ RLess(R.experience_match, Rat(8, 10))
               /\ RequiredYearsOnRecord /\ CandidateYearsOnRecord
               /\ CandidateYearsKnown < RequiredYearsKnown
        /\ ExperienceEntries # <<>> /\ RequiredYearsOnRecord /\ CandidateYearsOnRecord
               => ExperienceEntries[1].gap = RequiredYearsKnown - CandidateYearsKnown
        /\ ~CandidateYearsOnRecord => ExperienceEntries = <<>>

\* the scored job carries 'experience_required': None, as _fallback_parse
\* writes it for a description that mentions no years
ExplicitNullExperience ==
    /\ HasKey(ScoredJob.parsed_requirements, "experience_required")
    /\ IsNone(Val(ScoredJob.parsed_requirements)["experience_required"])

\* C28: for a job with an explicit null experience requirement the
\* recommendations are still those of the ordered rules: the culture entry is
\* there when the culture fit is below 0.6, the skill-development entry when
\* the skill sub-score is below 0.7 and a required skill is missing, and the
\* list is not the single generic entry of the error path.
C28_NullExperienceKeepsRules ==
    (Scored /\ ExplicitNullExperience) =>
        /\ RLess(R.culture_fit, Rat(6, 10)) => Recommends("research_culture")
        /\ (RLess(R.skill_match, Rat(7, 10)) /\ MissingRequired # <<>>)
               => Recommends("develop_skills")
        /\ ~Recommends("consider_applying")

-----------------------------------------------------------------------------
(* Properties of concurrent calls for one pair *)

Finished(w) == calls[w].stage \in {"done", "failed"}

RequestedPair(w) == <<calls[w].result.request.job_id, calls[w].result.request.candidate_id>>

\* two workers have each finished a call for the same pair of existing records
SamePairFinished(w, v) ==
    /\ w # v
    /\ Finished(w) /\ Finished(v)
    /\ RequestedPair(w) = RequestedPair(v)
    /\ Answerable(calls[w].result.request) /\ Answerable(calls[v].result.request)

\* C27: when two scoring requests for the same (job, candidate) pair have run
\* in any interleaving, both have completed with a result, and the one
\* Application of the pair holds the score of one of the two computations.
C27_SamePairRaceFree ==
    \A w, v \in WorkerIds :
        SamePairFinished(w, v) =>
            /\ calls[w].result.status = "ok"
            /\ calls[v].result.status = "ok"
            /\ RequestedPair(w) \in DOMAIN apps
            /\ apps[RequestedPair(w)].fit_score \in
                   {Some(calls[w].result.result.overall_score),
                    Some(calls[v].result.result.overall_score)}

-----------------------------------------------------------------------------
(* Properties of the routes and of the interview service *)

\* the answer of the step is a success / the candidate the step's request names
Moved == reply'.code = 200
MovedCandidate == reply'.request.candidate_id

\* the last row of the activity log after the step records the change
StageChangeLogged ==
    /\ Len(activity_logs') = Len(activity_logs) + 1
    /\ \E activity \in {activity_logs'[Len(activity_logs')]} :
           /\ activity.action = "stage_changed"
           /\ activity.entity_id = MovedCandidate
           /\ activity.details.from_stage = cands[MovedCandidate].stage
           /\ activity.details.to_stage = reply'.request.to_stage

\* C24: a move request either succeeds, and then the candidate's stage is the
\* requested stage and a stage_changed activity with the previous and the new
\* stage is logged, or it is answered with 404, 403 or 500 and no candidate's
\* stored stage has changed.
C24_StageMoveAllOrNothing ==
    [][IF Moved
       THEN /\ cands'[MovedCandidate].stage = reply'.request.to_stage
            /\ StageChangeLogged
       ELSE /\ reply'.code \in {404, 403, 500}
            /\ cands' = cands
            /\ activity_logs' = activity_logs]_vars

\* the step answers a publish request of the job's organization for a job
\* that is / is not in DRAFT
PublishesDraft ==
    /\ reply'.request.op = "publish_job"
    /\ validate_job_access(reply'.request.job_id, reply'.request.organization_id) = 0
    /\ posts[reply'.request.job_id].status = "draft"
PublishesOther ==
    /\ reply'.request.op = "publish_job"
    /\ validate_job_access(reply'.request.job_id, reply'.request.organization_id) = 0
    /\ posts[reply'.request.job_id].status # "draft"

\* C25: publishing a DRAFT job succeeds and leaves it PUBLISHED with a
\* non-empty public URL; publishing a job that is not DRAFT is answered with
\* 400 and changes nothing; a successful delete leaves the job CLOSED; a
\* CLOSED job stays CLOSED whatever is requested; and the public endpoint
\* serves PUBLISHED jobs only.
C25_JobStatusLifecycle ==
    [][/\ PublishesDraft =>
              /\ reply'.code = 200
              /\ posts'[reply'.request.job_id].status = "published"
              /\ ~FalsySeq(posts'[reply'.request.job_id].public_url)
       /\ PublishesOther => reply'.code = 400 /\ posts' = posts
       /\ (reply'.request.op = "delete_job" /\ reply'.code = 200)
              => posts'[reply'.request.job_id].status = "closed"
       /\ \A j \in DOMAIN posts :
              posts[j].status = "closed" => posts'[j].status = "closed"
       /\ (reply'.request.op = "get_public_job" /\ reply'.code = 200)
              => posts[reply'.request.job_id].status = "published"]_vars

\* the last answer is a role-health report / the answer of the route to the
\* organization's request for its own job
HasReport == reply.status = "ok" /\ reply.request.op = "role_health_response"
Report == reply.report
RouteAnswered ==
    /\ reply.status # "none"
    /\ reply.request.op = "get_role_health"
    /\ validate_job_access(reply.request.job_id, reply.request.organization_id) = 0

\* the candidates of the reported job in the given stages
InStages(stages) ==
    {c \in DOMAIN cands :
        /\ cands[c].job_id = reply.request.job_id
        /\ cands[c].organization_id = reply.request.organization_id
        /\ cands[c].stage \in stages}

\* the job of the acceptance test: 5 candidates, all added within the last
\* 24 hours, 2 of them in shortlist
FiveRecentTwoShortlisted ==
    /\ Cardinality(InStages(CandidateStage)) = 5
    /\ \A c \in InStages(CandidateStage) : cands[c].created_at >= -1
    /\ Cardinality(InStages({"shortlist"})) = 2

\* C26: the health index of every report lies in [0,100] and is 0 for a job
\* without candidates; qualified_on_hand is the number of candidates in
\* shortlist or interview; and for the job with 5 candidates added within the
\* last 24 hours, 2 of them in shortlist, the route answers with a report
\* whose health index is above 70 and whose qualified_on_hand is at least 2.
C26_RoleHealthIndex ==
    /\ HasReport =>
           /\ RLeq(Zero, Report.health_index) /\ RLeq(Report.health_index, Rat(100, 1))
           /\ InStages(CandidateStage) = {} => Report.health_index = Zero
           /\ Report.qualified_on_hand = Cardinality(InStages({"shortlist", "interview"}))
           /\ FiveRecentTwoShortlisted =>
                  /\ RLess(Rat(70, 1), Report.health_index)
                  /\ Report.qualified_on_hand >= 2
    /\ (RouteAnswered /\ FiveRecentTwoShortlisted) => reply.code = 200

\* the report lists the risk / proposes the action
ListsRisk(text) == InList(text, Report.risks)
ProposesAction(text) == InList(text, Report.next_actions)

\* C30: a report that lists the low-pipeline-health risk proposes to start a
\* sourcing campaign, one that lists the screening-backlog risk proposes to
\* review the pending candidates, and one that lists the low-qualified-pool
\* risk proposes to adjust the screening criteria.
C30_RisksDriveNextActions ==
    HasReport =>
        /\ ListsRisk(sLowHealth) => ProposesAction("Start sourcing campaign for this role")
        /\ ListsRisk(sBacklog) => ProposesAction("Review and screen pending candidates")
        /\ ListsRisk(sLowPool) => ProposesAction("Adjust screening criteria or expand search")

\* the intervals [start, start + duration) of two interviews intersect
Overlap(a, b) ==
    /\ a.scheduled_at < b.scheduled_at + b.duration_minutes
    /\ b.scheduled_at < a.scheduled_at + a.duration_minutes

\* C29: no two stored interviews of the same interviewer overlap in time: a
\* request whose interval intersects a stored interview of its interviewer
\* is rejected and stores nothing.
C29_InterviewersConflictFree ==
    \A a \in interviews : \A b \in interviews \ {a} :
        a.interviewer_id = b.interviewer_id => ~Overlap(a, b)

====
